---- MODULE Spec2Model ----
(***************************************************************************)
(* A model of webcrawlerGo: the deduplicating work queue (package queue),  *)
(* the URL/Page store with optimistic locking (package models), the        *)
(* crawler's worker loop (crawler.go) and the coordinator that seeds the   *)
(* queue, spawns the workers and waits for them (cmd: beginCrawl,          *)
(* initQueue, loadUrlsToQueue, listenForSignals).                          *)
(*                                                                         *)
(* URLs are abstract names.  What the code computes from the URL string    *)
(* and the command line (isMarkedURL, the ignore-pattern test) is a        *)
(* per-run configuration of subsets of URLs.  Page content is modelled by  *)
(* its length, timestamps by naturals with 0 standing for the zero         *)
(* time.Time that the code stores for "not set".                           *)
(***************************************************************************)
EXTENDS Integers, Sequences, FiniteSets, TLC

\* ------------------------------------------------------------------------
\* Bounds of the model
\* ------------------------------------------------------------------------
NumWorkers == 2
MaxTime == 2
MaxRetry == 1
MaxQueue == 3
MaxVersion == 3

\* ------------------------------------------------------------------------
\* Program constants
\* ------------------------------------------------------------------------
MinContentLen == 100

URLs == {"base", "a"}
BaseURL == "base"
Workers == 1..NumWorkers
Times == 0..MaxTime
ZeroTime == 0
ContentLens == {99, 100}

\* hrefs embedded in the page served for a URL (the crawled site)
Hrefs(u) == IF u = BaseURL THEN <<"a", "base">> ELSE <<"base">>

VARIABLES
    queue,      \* UniqueQueue.queue: the pending FIFO
    strMap,     \* UniqueQueue.strMap: membership map, item -> save flag
    urls,       \* the urls table: a set of rows
    pages,      \* the pages table: a set of rows
    ids,        \* the tables' id sequences: [url |-> n, page |-> n]
    cfg,        \* the run's configuration (cmdFlags / CrawlerConfig)
    failed,     \* CrawlerConfig.FailedRequests: a nil map or url -> count
    ctx,        \* the run's context: [done |-> BOOLEAN, sig |-> phase]
    now,        \* the wall clock read by time.Now()
    coord,      \* the coordinator: [pc, wg, todo]
    pc,         \* pc[w]: the position of worker w in Crawl
    loc,        \* loc[w]: the locals of worker w
    alive,      \* TRUE while the process runs
    qh,         \* history of the queue's calls
    sh,         \* history of the store's calls
    h,          \* history of the crawl
    mu,         \* UniqueQueue.mu and the callers inside the queue's methods
    net,        \* the HTTP request in flight: [stage, cur, hops]
    boot,       \* program start: [stage, flags, errors, dbOpen, seeded, workers]
    pace,       \* one worker's requests in time: [pc, since, lastGap, pending, reqs]
    api,        \* the management API: [flag, running, sent, req]
    exp,        \* the exporter and the backend of its store
    idle,       \* the workers' idle timers: [since, left]
    page,       \* the hrefs of a fetched page: [stage, seen]
    proc        \* func main: [pc, mode, driver, exitCode, code, fault, wg, lost, sig]

vars == <<queue, strMap, urls, pages, ids, cfg, failed, ctx, now, coord,
          pc, loc, alive, qh, sh, h, mu, net, boot,
          pace, api, exp, proc, idle, page>>

\* ------------------------------------------------------------------------
\* package queue: UniqueQueue
\* ------------------------------------------------------------------------
EmptyMap == [x \in {} |-> FALSE]
NewQueue == [queue |-> <<>>, strMap |-> EmptyMap]

\* the membership map maps[item] = value, every other key kept
MapSet(m, item, value) ==
    [x \in (DOMAIN m) \cup {item} |-> IF x = item THEN value ELSE m[x]]

FirstEncounter(m, item) == item \notin DOMAIN m

\* Push returns the new queue, the new map and whether the item was added
PushNoDedup(q, m, item) ==
    [queue |-> Append(q, item), strMap |-> MapSet(m, item, FALSE), ok |-> TRUE]

Push(q, m, item) ==
    IF FirstEncounter(m, item)
    THEN [queue |-> Append(q, item), strMap |-> MapSet(m, item, FALSE), ok |-> TRUE]
    ELSE [queue |-> q, strMap |-> m, ok |-> FALSE]

\* PushForce that skips an item already seen, as Push does
PushForceDedup(q, m, item) ==
    IF FirstEncounter(m, item)
    THEN [queue |-> Append(q, item), strMap |-> MapSet(m, item, FALSE)]
    ELSE [queue |-> q, strMap |-> m]

PushForce(q, m, item) ==
    [queue |-> Append(q, item), strMap |-> MapSet(m, item, FALSE)]

\* Pop returns the head and the rest, or ErrEmptyQueue
Pop(q, m) ==
    IF Len(q) # 0
    THEN [item |-> Head(q), queue |-> Tail(q), strMap |-> m, err |-> "nil"]
    ELSE [item |-> "", queue |-> q, strMap |-> m, err |-> "ErrEmptyQueue"]

GetMapValue(m, key) ==
    IF key \in DOMAIN m
    THEN [value |-> m[key], err |-> "nil"]
    ELSE [value |-> FALSE, err |-> "ErrItemNotFound"]

SetMapValue(m, key, value) == MapSet(m, key, value)

\* Clear that leaves the pending items where they are
ClearNone(q) == q

\* Clear drops the pending items and keeps the membership map
Clear(q) == <<>>

\* ------------------------------------------------------------------------
\* package models: the urls and pages tables
\* ------------------------------------------------------------------------
NewURL(url, lastChecked, lastSaved, isMonitored) ==
    [id |-> 0, url |-> url, first_encountered |-> ZeroTime,
     last_checked |-> lastChecked, last_saved |-> lastSaved,
     is_monitored |-> isMonitored, is_alive |-> TRUE, version |-> 0]

RowByURL(rows, url) == CHOOSE r \in rows : r.url = url
RowById(rows, id) == CHOOSE r \in rows : r.id = id

URLGetByURL(rows, url) ==
    IF \E r \in rows : r.url = url
    THEN [m |-> RowByURL(rows, url), err |-> "nil"]
    ELSE [m |-> NewURL("", ZeroTime, ZeroTime, FALSE), err |-> "ErrRecordNotFound"]

\* INSERT ... RETURNING id, first_encountered, version; url is unique
URLInsert(rows, m, id, t) ==
    IF \E r \in rows : r.url = m.url
    THEN [rows |-> rows, m |-> m, err |-> "unique"]
    ELSE LET row == [m EXCEPT !.id = id, !.first_encountered = t, !.version = 1,
                              !.is_alive = TRUE]
         IN  [rows |-> rows \cup {row}, m |-> row, err |-> "nil"]

\* UPDATE ... SET ..., version = version + 1 WHERE id = m.id (no version test)
URLUpdateNoVersion(rows, m) ==
    IF \E r \in rows : r.id = m.id
    THEN LET old == RowById(rows, m.id)
             new == [old EXCEPT !.last_checked = m.last_checked,
                                !.last_saved = m.last_saved,
                                !.is_monitored = m.is_monitored,
                                !.is_alive = m.is_alive,
                                !.version = old.version + 1]
         IN  [rows |-> (rows \ {old}) \cup {new},
              m |-> [m EXCEPT !.version = new.version], err |-> "nil"]
    ELSE [rows |-> rows, m |-> m, err |-> "ErrEditConflict"]

\* UPDATE ... SET ..., version = version + 1 WHERE id = m.id AND version = m.version
URLUpdate(rows, m) ==
    IF \E r \in rows : r.id = m.id /\ r.version = m.version
    THEN LET old == RowById(rows, m.id)
             new == [old EXCEPT !.last_checked = m.last_checked,
                                !.last_saved = m.last_saved,
                                !.is_monitored = m.is_monitored,
                                !.is_alive = m.is_alive,
                                !.version = old.version + 1]
         IN  [rows |-> (rows \ {old}) \cup {new},
              m |-> [m EXCEPT !.version = new.version], err |-> "nil"]
    ELSE [rows |-> rows, m |-> m, err |-> "ErrEditConflict"]

NewPage(urlID, content) == [id |-> 0, url_id |-> urlID, added_at |-> ZeroTime,
                            content |-> content]

\* INSERT INTO pages (url_id, content) ... RETURNING id, added_at
PageInsert(prows, p, id, t) ==
    prows \cup {[p EXCEPT !.id = id, !.added_at = t]}

\* ------------------------------------------------------------------------
\* Initial values
\* ------------------------------------------------------------------------
NilMap == [nil |-> TRUE, count |-> [u \in URLs |-> 0]]

NoCfg == [marked |-> {}, ignored |-> {}, retry |-> 0, interval |-> 0,
          updateHrefs |-> FALSE]

InitLoc == [urlpath |-> "", docLen |-> 0, i |-> 0, href |-> "",
            uModel |-> NewURL("", ZeroTime, ZeroTime, FALSE),
            t |-> ZeroTime, cnt |-> 0, pageId |-> 0, readVer |-> 0,
            updErr |-> "none", saving |-> FALSE, status |-> 0,
            body |-> "none"]

InitQH == [okCount |-> [u \in URLs |-> 0], ins |-> [u \in URLs |-> 0],
           rem |-> [u \in URLs |-> 0], last |-> "none", flag |-> FALSE,
           cleared |-> FALSE]

InitSH == [op |-> "none", err |-> "nil", stale |-> FALSE, same |-> TRUE,
           updated |-> FALSE]

InitH == [lateIter |-> FALSE, unmonPage |-> FALSE, sibling |-> FALSE,
          requeues |-> [u \in URLs |-> 0], fetched |-> {},
          insertOk |-> [u \in URLs |-> 0], rowInserts |-> [u \in URLs |-> 0],
          flagged |-> {}]

NoOp == [name |-> "none", item |-> "", value |-> FALSE]

InitMu == [holder |-> 0, at |-> [w \in Workers |-> "idle"],
           op |-> [w \in Workers |-> NoOp]]

\* the state that the specifications of the crawl do not touch
extVars == <<mu, net, boot, pace, api, exp, proc, idle, page>>

NoURL == [scheme |-> "", host |-> "", path |-> ""]

InitNet == [stage |-> "init", cur |-> NoURL, hops |-> 0]

\* durations in microseconds
Microsecond == 1
Millisecond == 1000
Second == 1000000
DefaultSleepDuration == 500
\* the longest time the model measures between two requests
MaxGap == 2000

NoFlags ==
    [server |-> FALSE, baseURL |-> NoURL, nCrawlers |-> 0, days |-> 0,
     dbDSN |-> "", ua |-> "", reqDelayStr |-> "", idleStr |-> "",
     retry |-> 0, dbToDisk |-> FALSE, savePath |-> "", cutOff |-> "past",
     reqDelay |-> 0, idleTimeout |-> 0]

InitBoot ==
    [stage |-> "off", flags |-> NoFlags, errors |-> [k \in {} |-> ""],
     dbOpen |-> FALSE, seeded |-> FALSE, workers |-> 0]

InitPace ==
    [pc |-> "top", since |-> 0, lastGap |-> MaxGap, pending |-> 0, reqs |-> 0]

MaxReqs == 3
Reqs == 1..MaxReqs
Operations == {"crawl", "saveContent"}

NoReq == [pc |-> "none", op |-> "crawl", code |-> 0, retryAfter |-> ""]

\* webapp.IsCrawling / IsSavingToDisk, the running instances of each
\* operation, the values sent on isProcessingChan and not yet received,
\* and the HTTP requests
InitApi ==
    [flag |-> [o \in Operations |-> FALSE],
     running |-> [o \in Operations |-> 0],
     sent |-> [o \in Operations |-> 0],
     req |-> [r \in Reqs |-> NoReq]]

\* the exporter: its arguments, the record count, the page of the result
\* it is at, the rows it was given and the files on disk
InitExp ==
    [backend |-> "none", stage |-> "closed", base |-> "", marked |-> "",
     cutoff |-> 0, count |-> 0, totalPages |-> 0, pageNum |-> 0,
     rows |-> {}, files |-> [n \in {} |-> 0]]

\* main before its first statement: exitCode is 0, nothing has failed
InitProc ==
    [pc |-> "start", mode |-> "crawl", driver |-> "none", exitCode |-> 0,
     code |-> 0, fault |-> "none", wg |-> 0, lost |-> 0, sig |-> FALSE,
     robots |-> [status |-> -1, read |-> FALSE, err |-> FALSE]]

\* the idle timeout of the run and the number of URLs the site still has
\* to be found, both in the model's units
MaxIdle == 2
MaxFinds == 2

\* time.Since(startTime) of each worker, in sleeps of defaultSleepDuration,
\* and the URLs not yet found
InitIdle == [since |-> [w \in Workers |-> 0], left |-> MaxFinds]

\* a page whose hrefs have not been read
InitPage == [stage |-> "init", seen |-> {}]

InitExt ==
    /\ page = InitPage
    /\ idle = InitIdle
    /\ proc = InitProc
    /\ exp = InitExp
    /\ api = InitApi
    /\ mu = InitMu
    /\ net = InitNet
    /\ boot = InitBoot
    /\ pace = InitPace

InitRest ==
    /\ InitExt
    /\ cfg = NoCfg
    /\ failed = NilMap
    /\ ctx = [done |-> FALSE, sig |-> "none"]
    /\ now = 1
    /\ coord = [pc |-> "init", wg |-> 0, todo |-> {}, t |-> ZeroTime]
    /\ pc = [w \in Workers |-> "unborn"]
    /\ loc = [w \in Workers |-> InitLoc]
    /\ alive = TRUE
    /\ h = InitH

crawlVars == <<cfg, failed, ctx, now, coord, pc, loc, alive, h>>
storeVars == <<urls, pages, ids, sh>>
queueVars == <<queue, strMap, qh>>

\* ------------------------------------------------------------------------
\* SpecQueue: arbitrary calls on one queue.  The queue's mutex makes every
\* call one atomic step.
\* ------------------------------------------------------------------------
Appends == qh.ins["base"] + qh.ins["a"]
Min2(n) == IF n >= 2 THEN 2 ELSE n

QInsert(item) ==
    LET r == Push(queue, strMap, item) IN
    /\ r.ok => Appends < MaxQueue
    /\ queue' = r.queue
    /\ strMap' = r.strMap
    /\ qh' = [qh EXCEPT !.okCount[item] = IF r.ok THEN Min2(@ + 1) ELSE @,
                        !.ins[item] = IF r.ok THEN @ + 1 ELSE @,
                        !.last = IF r.ok THEN "InsertTrue" ELSE "InsertFalse",
                        !.flag = item \in DOMAIN strMap]
    /\ UNCHANGED <<urls, pages, ids, sh>>
    /\ UNCHANGED crawlVars

QInsertForce(item) ==
    LET r == PushForce(queue, strMap, item) IN
    /\ Appends < MaxQueue
    /\ queue' = r.queue
    /\ strMap' = r.strMap
    /\ qh' = [qh EXCEPT !.ins[item] = @ + 1, !.last = "InsertForce",
                        !.flag = item \in DOMAIN strMap]
    /\ UNCHANGED <<urls, pages, ids, sh>>
    /\ UNCHANGED crawlVars

QRemove ==
    LET r == Pop(queue, strMap) IN
    /\ queue' = r.queue
    /\ strMap' = r.strMap
    /\ qh' = [qh EXCEPT !.rem = IF r.err = "nil"
                                 THEN [@ EXCEPT ![r.item] = @ + 1] ELSE @,
                        !.last = IF r.err = "nil" THEN "Remove" ELSE "RemoveEmpty",
                        !.flag = FALSE]
    /\ UNCHANGED <<urls, pages, ids, sh>>
    /\ UNCHANGED crawlVars

QSetMapValue(key, value) ==
    /\ strMap' = SetMapValue(strMap, key, value)
    /\ qh' = [qh EXCEPT !.last = "SetMapValue", !.flag = key \in DOMAIN strMap]
    /\ UNCHANGED <<queue, urls, pages, ids, sh>>
    /\ UNCHANGED crawlVars

QClear ==
    /\ queue' = Clear(queue)
    /\ qh' = [qh EXCEPT !.last = "Clear", !.flag = FALSE, !.cleared = TRUE]
    /\ UNCHANGED <<strMap, urls, pages, ids, sh>>
    /\ UNCHANGED crawlVars

QInit ==
    /\ queue = NewQueue.queue
    /\ strMap = NewQueue.strMap
    /\ urls = {}
    /\ pages = {}
    /\ ids = [url |-> 1, page |-> 1]
    /\ qh = InitQH
    /\ sh = InitSH
    /\ InitRest

QNext ==
    \/ \E item \in URLs : QInsert(item) /\ UNCHANGED extVars
    \/ \E item \in URLs : QInsertForce(item) /\ UNCHANGED extVars
    \/ QRemove /\ UNCHANGED extVars
    \/ \E key \in URLs, value \in BOOLEAN :
          QSetMapValue(key, value) /\ UNCHANGED extVars
    \/ QClear /\ UNCHANGED extVars

SpecQueue == QInit /\ [][QNext]_vars

\* C1: every item returned by Remove was inserted before (per item, the
\* removals never outnumber the insertions), and Insert(x) returns true at
\* most once in the queue's life, also after x has been removed.
C1_RemovedWereInserted_InsertTrueOnce ==
    \A u \in URLs : qh.rem[u] <= qh.ins[u] /\ qh.okCount[u] <= 1

\* an item was inserted, removed, and a later Insert of it was refused
C1_Witness ==
    \E u \in URLs : /\ qh.okCount[u] = 1
                    /\ qh.rem[u] >= 1
                    /\ qh.last = "InsertFalse"
                    /\ u \notin {queue[i] : i \in 1..Len(queue)}

\* ------------------------------------------------------------------------
\* SpecMutex: goroutines calling the queue's methods, each method in the
\* steps the code takes: q.mu.Lock(), the body, the deferred q.mu.Unlock().
\* SetMapValue has its Lock/Unlock pair commented out: it goes straight to
\* its body, the write of strMap[key].
\* ------------------------------------------------------------------------
QueueOps ==
    {[name |-> n, item |-> u, value |-> FALSE] :
         n \in {"Insert", "InsertForce", "GetMapValue"}, u \in URLs}
    \cup {[name |-> n, item |-> "", value |-> FALSE] : n \in {"Remove", "Clear"}}
    \cup {[name |-> "SetMapValue", item |-> u, value |-> b] :
              u \in URLs, b \in BOOLEAN}

\* the methods that start with q.mu.Lock()
Locks(op) == op.name # "SetMapValue"

\* the goroutines inside a method's body
InBody == {w \in Workers : mu.at[w] = "body"}

\* q.mu.Lock(), or the entry of a method that takes no lock
MCall(w, op) ==
    /\ alive
    /\ mu.at[w] = "idle"
    /\ IF Locks(op)
       THEN /\ mu.holder = 0
            /\ mu' = [mu EXCEPT !.holder = w, !.at[w] = "body", !.op[w] = op]
       ELSE mu' = [mu EXCEPT !.at[w] = "body", !.op[w] = op]
    /\ UNCHANGED <<queue, strMap, qh>>

\* the effect of a method's body on the FIFO and the map
BodyResult(op) ==
    CASE op.name = "Insert" ->
            LET r == Push(queue, strMap, op.item) IN
            [queue |-> r.queue, strMap |-> r.strMap]
      [] op.name = "InsertForce" ->
            LET r == PushForce(queue, strMap, op.item) IN
            [queue |-> r.queue, strMap |-> r.strMap]
      [] op.name = "Remove" ->
            LET r == Pop(queue, strMap) IN
            [queue |-> r.queue, strMap |-> r.strMap]
      [] op.name = "SetMapValue" ->
            [queue |-> queue,
             strMap |-> SetMapValue(strMap, op.item, op.value)]
      [] op.name = "Clear" -> [queue |-> Clear(queue), strMap |-> strMap]
      [] OTHER -> [queue |-> queue, strMap |-> strMap]

MBody(w) ==
    LET r == BodyResult(mu.op[w]) IN
    /\ alive
    /\ mu.at[w] = "body"
    /\ Len(r.queue) <= MaxQueue
    /\ queue' = r.queue
    /\ strMap' = r.strMap
    /\ mu' = [mu EXCEPT !.at[w] = IF Locks(mu.op[w]) THEN "unlock" ELSE "idle",
                        !.op[w] = IF Locks(@) THEN @ ELSE NoOp]
    /\ UNCHANGED qh

\* the deferred q.mu.Unlock()
MUnlock(w) ==
    /\ alive
    /\ mu.at[w] = "unlock"
    /\ mu' = [mu EXCEPT !.holder = 0, !.at[w] = "idle", !.op[w] = NoOp]
    /\ UNCHANGED <<queue, strMap, qh>>

\* two goroutines in the map at once, one of them writing: the Go runtime
\* may detect it and end the process ("concurrent map writes")
MRaceCrash ==
    /\ alive
    /\ \E w, v \in InBody :
          /\ w # v
          /\ mu.op[w].name = "SetMapValue"
          /\ mu.op[v].name \in {"Insert", "InsertForce", "GetMapValue",
                                 "SetMapValue"}
    /\ UNCHANGED <<queue, strMap, qh, mu>>

MInit == QInit

mutexRest ==
    <<urls, pages, ids, sh, cfg, failed, ctx, now, coord, pc, loc, h, net,
      boot, pace, api, exp, proc, idle, page>>

MNext ==
    \/ \E w \in Workers, op \in QueueOps :
          MCall(w, op) /\ UNCHANGED <<mutexRest, alive>>
    \/ \E w \in Workers : MBody(w) /\ UNCHANGED <<mutexRest, alive>>
    \/ \E w \in Workers : MUnlock(w) /\ UNCHANGED <<mutexRest, alive>>
    \/ MRaceCrash /\ alive' = FALSE /\ UNCHANGED mutexRest

SpecMutex == MInit /\ [][MNext]_vars

\* C11: no two calls of Insert, InsertForce, Remove, SetMapValue,
\* GetMapValue or Clear are inside their bodies, reading or writing the FIFO
\* or the membership map, at the same time.
C11_QueueOpsMutuallyExclusive == Cardinality(InBody) <= 1

\* ------------------------------------------------------------------------
\* SpecStore: arbitrary Insert and Update calls on the urls table, by
\* callers that hold any copy of a row, fresh or stale.
\* ------------------------------------------------------------------------
StoreIds == 1..2

SInsert(url, isMonitored) ==
    LET r == URLInsert(urls, NewURL(url, ZeroTime, ZeroTime, isMonitored),
                       ids.url, now) IN
    /\ urls' = r.rows
    /\ ids' = IF r.err = "nil" THEN [ids EXCEPT !.url = @ + 1] ELSE ids
    /\ sh' = [op |-> "Insert", err |-> r.err, stale |-> FALSE,
              same |-> r.rows = urls, updated |-> FALSE]
    /\ UNCHANGED <<pages, queue, strMap, qh>>
    /\ UNCHANGED crawlVars

SUpdate(m) ==
    LET r == URLUpdate(urls, m) IN
    /\ \A row \in urls : row.version < MaxVersion
    /\ urls' = r.rows
    /\ sh' = [op |-> "Update", err |-> r.err,
              stale |-> \E row \in urls : row.id = m.id /\ row.version # m.version,
              same |-> r.rows = urls,
              updated |-> \E row \in urls : row.id = m.id /\ row.version >= 2]
    /\ UNCHANGED <<pages, ids, queue, strMap, qh>>
    /\ UNCHANGED crawlVars

SInit ==
    /\ queue = NewQueue.queue
    /\ strMap = NewQueue.strMap
    /\ urls = {}
    /\ pages = {}
    /\ ids = [url |-> 1, page |-> 1]
    /\ qh = InitQH
    /\ sh = InitSH
    /\ InitRest

SNext ==
    \/ \E url \in URLs, isMonitored \in BOOLEAN :
          SInsert(url, isMonitored) /\ UNCHANGED extVars
    \/ \E id \in StoreIds, v \in 1..MaxVersion, lc \in {ZeroTime, now},
          ls \in {ZeroTime, now},
          mon \in BOOLEAN, al \in BOOLEAN :
          /\ SUpdate([NewURL("", lc, ls, mon) EXCEPT !.id = id, !.version = v,
                                                     !.is_alive = al])
          /\ UNCHANGED extVars

SpecStore == SInit /\ [][SNext]_vars

\* C2: an Update whose version differs from the stored row's version fails
\* with EditConflict and leaves the whole table, so every column of the row,
\* version included, as it was.
C2_StaleUpdateIsEditConflict ==
    (sh.op = "Update" /\ sh.stale) =>
        (sh.err = "ErrEditConflict" /\ sh.same)

\* a stale Update was issued against a row that had been updated before
C2_Witness ==
    /\ sh.op = "Update"
    /\ sh.stale
    /\ sh.updated

\* ------------------------------------------------------------------------
\* The crawl: configuration and stores a run can start from
\* ------------------------------------------------------------------------
Cfg(marked, ignored, retry, interval, updateHrefs) ==
    [marked |-> marked, ignored |-> ignored, retry |-> retry,
     interval |-> interval, updateHrefs |-> updateHrefs]

Row(id, url, lc, ls, mon, v) ==
    [id |-> id, url |-> url, first_encountered |-> 1, last_checked |-> lc,
     last_saved |-> ls, is_monitored |-> mon, is_alive |-> TRUE, version |-> v]

Store(rows, prows) ==
    [urls |-> rows, pages |-> prows,
     ids |-> [url |-> Cardinality(rows) + 1, page |-> Cardinality(prows) + 1]]

\* the stores left behind by no run, by a run that was stopped before its
\* first visit, by a run that visited base and found a, and by a run that
\* had base marked and saved it
EmptyStore == Store({}, {})
SeededStore == Store({Row(1, "base", 0, 0, FALSE, 1)}, {})
VisitedStore ==
    Store({Row(1, "base", 1, 0, FALSE, 2), Row(2, "a", 0, 0, FALSE, 1)}, {})
SavedStore ==
    Store({Row(1, "base", 1, 1, TRUE, 2), Row(2, "a", 1, 0, FALSE, 2)},
          {[id |-> 1, url_id |-> 1, added_at |-> 1, content |-> MinContentLen]})

\* the stores left behind by a run that saw a URL return 404: a is dead,
\* or the base URL itself is
Dead(row) == [row EXCEPT !.is_alive = FALSE]
DeadStore ==
    Store({Row(1, "base", 1, 0, FALSE, 2), Dead(Row(2, "a", 1, 0, FALSE, 2))}, {})
DeadBaseStore == Store({Dead(Row(1, "base", 1, 0, FALSE, 2))}, {})

\* the runs of the model: a command line and the store it finds
Scenarios ==
    { [cfg |-> Cfg({"base"}, {}, 0, 0, FALSE), store |-> EmptyStore],
      [cfg |-> Cfg({"a"}, {}, 0, 0, FALSE), store |-> EmptyStore],
      [cfg |-> Cfg({}, {}, 0, 0, FALSE), store |-> SeededStore],
      [cfg |-> Cfg({"a"}, {}, 0, 0, FALSE), store |-> VisitedStore],
      [cfg |-> Cfg({}, {}, 0, 0, FALSE), store |-> VisitedStore],
      [cfg |-> Cfg({}, {}, 0, 0, TRUE), store |-> VisitedStore],
      [cfg |-> Cfg({"base"}, {"base"}, 0, 0, FALSE), store |-> SeededStore],
      [cfg |-> Cfg({}, {}, MaxRetry, 0, FALSE), store |-> SavedStore],
      [cfg |-> Cfg({}, {}, 0, 1, FALSE), store |-> SavedStore],
      [cfg |-> Cfg({"a"}, {}, 0, 0, TRUE), store |-> DeadStore],
      [cfg |-> Cfg({}, {}, 0, 0, TRUE), store |-> SavedStore],
      [cfg |-> Cfg({}, {}, 0, 0, FALSE), store |-> DeadBaseStore] }

isMarkedURL(href) == href \in cfg.marked
isValidURL(href) == href \notin cfg.ignored

\* time.Now(): the clock never runs backwards
TimeNow(t) == t \in now..MaxTime /\ now' = t

Inc(f, u) == [f EXCEPT ![u] = @ + 1]

\* ------------------------------------------------------------------------
\* The coordinator: beginCrawl, initQueue, loadUrlsToQueue
\* ------------------------------------------------------------------------
\* initQueue: Insert the base URL in the queue and in the urls table (a
\* unique-constraint error is ignored), then GetAll for loadUrlsToQueue
InitQueue ==
    LET q == Push(queue, strMap, BaseURL)
        r == URLInsert(urls, NewURL(BaseURL, ZeroTime, ZeroTime, FALSE),
                       ids.url, now)
    IN
    /\ alive /\ coord.pc = "init"
    /\ queue' = q.queue
    /\ strMap' = q.strMap
    /\ urls' = r.rows
    /\ ids' = IF r.err = "nil" THEN [ids EXCEPT !.url = @ + 1] ELSE ids
    /\ \E t \in Times :
          /\ TimeNow(t)
          /\ coord' = [coord EXCEPT !.pc = "load", !.todo = r.rows, !.t = t]
    /\ UNCHANGED <<pages, cfg, failed, ctx, pc, loc, alive, qh, sh, h>>

\* the switch with a URL due only after its expiry time, not at it
LoadCaseAfter(row, currentTime) ==
    IF row.is_monitored /\ currentTime > row.last_saved + cfg.interval
    THEN "fetch"
    ELSE IF ~row.is_monitored /\ row.url \in cfg.marked THEN "promote" ELSE "skip"

\* the switch of loadUrlsToQueue: "fetch", "promote" or "skip"
LoadCase(row, currentTime) ==
    IF row.is_monitored /\ currentTime >= row.last_saved + cfg.interval
    THEN "fetch"
    ELSE IF ~row.is_monitored /\ row.url \in cfg.marked THEN "promote" ELSE "skip"

\* one iteration of the loop of loadUrlsToQueue, on a row of the GetAll
\* result (ORDER BY is_monitored)
LoadRow(row) ==
    LET c == LoadCase(row, coord.t)
        u == URLUpdate(urls, [row EXCEPT !.is_monitored = TRUE])
        rest == [coord EXCEPT !.todo = @ \ {row}]
    IN
    /\ alive /\ coord.pc = "load" /\ row \in coord.todo
    /\ \A o \in coord.todo : row.is_monitored => o.is_monitored
    /\ IF ctx.done
       THEN /\ coord' = [coord EXCEPT !.pc = "spawn", !.todo = {}]
            /\ UNCHANGED <<queue, strMap, urls>>
       ELSE IF ~row.is_alive
       THEN /\ strMap' = SetMapValue(strMap, row.url, FALSE)
            /\ coord' = rest
            /\ UNCHANGED <<queue, urls>>
       ELSE IF row.url \in cfg.ignored
       THEN /\ coord' = rest
            /\ UNCHANGED <<queue, strMap, urls>>
       ELSE IF c = "promote" /\ u.err # "nil"
       THEN /\ coord' = [coord EXCEPT !.pc = "returned", !.todo = {}]
            /\ UNCHANGED <<queue, strMap, urls>>
       ELSE /\ urls' = IF c = "promote" THEN u.rows ELSE urls
            /\ coord' = rest
            /\ IF c \in {"fetch", "promote"}
               THEN /\ queue' = PushForce(queue, strMap, row.url).queue
                    /\ strMap' = SetMapValue(strMap, row.url, TRUE)
               ELSE IF cfg.updateHrefs
               THEN /\ queue' = PushForce(queue, strMap, row.url).queue
                    /\ strMap' = PushForce(queue, strMap, row.url).strMap
               ELSE /\ queue' = queue
                    /\ strMap' = SetMapValue(strMap, row.url, FALSE)
    /\ h' = IF ~ctx.done /\ row.is_alive /\ row.url \notin cfg.ignored
                /\ c \in {"fetch", "promote"} /\ ~(c = "promote" /\ u.err # "nil")
             THEN [h EXCEPT !.flagged = @ \cup {row.url}]
             ELSE h
    /\ UNCHANGED <<pages, ids, cfg, failed, ctx, now, pc, loc, alive, qh, sh>>

\* loadUrlsToQueue returns, getCrawlerConfig makes the retry map (nil when
\* retry = 0), and beginCrawl starts the workers: wg.Add(1); go Crawl
Spawn ==
    /\ alive
    /\ \/ coord.pc = "spawn"
       \/ coord.pc = "load" /\ coord.todo = {}
    /\ failed' = IF cfg.retry > 0 THEN [NilMap EXCEPT !.nil = FALSE] ELSE NilMap
    /\ coord' = [coord EXCEPT !.pc = "wait", !.wg = NumWorkers, !.todo = {}]
    /\ pc' = [w \in Workers |-> "top"]
    /\ UNCHANGED <<queue, strMap, urls, pages, ids, cfg, ctx, now, loc, alive,
                   qh, sh, h>>

\* wg.Wait() of beginCrawl
WgWaitNoWait == TRUE

WgWait == coord.wg = 0

CoordReturn ==
    /\ alive /\ coord.pc = "wait"
    /\ WgWait
    /\ coord' = [coord EXCEPT !.pc = "returned"]
    /\ UNCHANGED <<queue, strMap, urls, pages, ids, cfg, failed, ctx, now, pc,
                   loc, alive, qh, sh, h>>

\* listenForSignals: a signal arrives, the queue is cleared, then the
\* deferred cancel() runs
SignalClear ==
    /\ alive /\ ctx.sig = "none" /\ ~ctx.done
    /\ coord.pc # "returned"
    /\ queue' = Clear(queue)
    /\ ctx' = [ctx EXCEPT !.sig = "cleared"]
    /\ UNCHANGED <<strMap, urls, pages, ids, cfg, failed, now, coord, pc, loc,
                   alive, qh, sh, h>>

SignalCancel ==
    /\ alive /\ ctx.sig = "cleared"
    /\ ctx' = [done |-> TRUE, sig |-> "cancelled"]
    /\ UNCHANGED <<queue, strMap, urls, pages, ids, cfg, failed, now, coord, pc,
                   loc, alive, qh, sh, h>>

\* ------------------------------------------------------------------------
\* The worker: Crawler.Crawl, savePageContent, updateLastCheckedDate
\* ------------------------------------------------------------------------
Goto(w, p) == pc' = [pc EXCEPT ![w] = p] /\ UNCHANGED <<coord, alive>>

\* what stays of an iteration's locals once it has ended: the record of the
\* visit (the other locals are dead)
EndIter(l) ==
    [InitLoc EXCEPT !.urlpath = l.urlpath, !.readVer = l.readVer,
                    !.pageId = l.pageId, !.updErr = l.updErr,
                    !.saving = l.saving]

\* return from Crawl: the deferred wg.Done() runs
Return(w) ==
    /\ pc' = [pc EXCEPT ![w] = "quit"]
    /\ coord' = [coord EXCEPT !.wg = @ - 1]
    /\ UNCHANGED alive

\* log.Fatalf instead of runtime.Goexit: os.Exit ends the process
LogFatal(w) ==
    /\ pc' = [pc EXCEPT ![w] = "fatal"]
    /\ alive' = FALSE
    /\ UNCHANGED coord

\* runtime.Goexit(): the goroutine ends, its deferred wg.Done() runs
Goexit(w) ==
    /\ pc' = [pc EXCEPT ![w] = "fatal"]
    /\ coord' = [coord EXCEPT !.wg = @ - 1]
    /\ UNCHANGED alive

\* case <-c.Ctx.Done() of the select at the top of the loop
CrawlSelectDoneNever == FALSE

CrawlSelectDone == ctx.done

\* len(contentStr) < 100
IsShortContentEmptyOnly(n) == n = 0

IsShortContent(n) == n < MinContentLen

Top(w) ==
    /\ alive /\ pc[w] = "top"
    /\ IF CrawlSelectDone
       THEN Return(w) /\ UNCHANGED h
       ELSE /\ Goto(w, "remove")
            /\ h' = [h EXCEPT !.lateIter = @ \/ ctx.done]
    /\ loc' = [loc EXCEPT ![w].status = 0, ![w].body = "none"]
    /\ UNCHANGED <<queue, strMap, urls, pages, ids, cfg, failed, ctx, now,
                   qh, sh>>

\* c.Queue.Remove(); on ErrEmptyQueue quit after IdleTimeout, else sleep
Remove(w) ==
    LET r == Pop(queue, strMap) IN
    /\ alive /\ pc[w] = "remove"
    /\ queue' = r.queue
    /\ IF r.err = "ErrEmptyQueue"
       THEN /\ \/ Return(w)
               \/ Goto(w, "top")
            /\ UNCHANGED <<loc, h>>
       ELSE /\ Goto(w, "fetch")
            /\ loc' = [loc EXCEPT ![w] = [InitLoc EXCEPT !.urlpath = r.item]]
            /\ h' = [h EXCEPT !.sibling = @ \/ \E v \in Workers : pc[v] = "fatal",
                              !.fetched = @ \cup {r.item}]
    /\ UNCHANGED <<strMap, urls, pages, ids, cfg, failed, ctx, now, qh, sh>>

\* the statuses a response of the site can have
StatusCodes == {200, 404}

\* c.getURL: a transport error (no response), a response whose status is
\* not 200 (logged, continue), or a document; resp.Body is open from the
\* response on
Fetch(w) ==
    LET u == loc[w].urlpath IN
    /\ alive /\ pc[w] = "fetch"
    /\ \/ /\ IF ~failed.nil /\ failed.count[u] < cfg.retry
             THEN Goto(w, "retry_push")
             ELSE Goto(w, "top")
          /\ UNCHANGED loc
       \/ /\ Goto(w, "top")
          /\ \E st \in StatusCodes \ {200} :
                loc' = [loc EXCEPT ![w].status = st, ![w].body = "open"]
       \/ /\ \E n \in ContentLens :
                loc' = [loc EXCEPT ![w].docLen = n, ![w].i = 1,
                                   ![w].status = 200, ![w].body = "open"]
          /\ Goto(w, "disc")
    /\ UNCHANGED <<queue, strMap, urls, pages, ids, cfg, failed, ctx, now, qh,
                   sh, h>>

\* c.Queue.InsertForce(urlpath)
RetryPush(w) ==
    LET r == PushForce(queue, strMap, loc[w].urlpath) IN
    /\ alive /\ pc[w] = "retry_push"
    /\ queue' = r.queue
    /\ strMap' = r.strMap
    /\ h' = [h EXCEPT !.requeues = Inc(@, loc[w].urlpath)]
    /\ Goto(w, "retry_load")
    /\ UNCHANGED <<urls, pages, ids, cfg, failed, ctx, now, loc, qh, sh>>

\* c.FailedRequests[urlpath] += 1: the load ...
RetryLoad(w) ==
    /\ alive /\ pc[w] = "retry_load"
    /\ loc' = [loc EXCEPT ![w].cnt = failed.count[loc[w].urlpath]]
    /\ Goto(w, "retry_store")
    /\ UNCHANGED <<queue, strMap, urls, pages, ids, cfg, failed, ctx, now, qh,
                   sh, h>>

\* ... and the store
RetryStore(w) ==
    /\ alive /\ pc[w] = "retry_store"
    /\ failed' = [failed EXCEPT !.count[loc[w].urlpath] = loc[w].cnt + 1]
    /\ loc' = [loc EXCEPT ![w] = EndIter(@)]
    /\ Goto(w, "top")
    /\ UNCHANGED <<queue, strMap, urls, pages, ids, cfg, ctx, now, qh, sh, h>>

\* the Go runtime ends the process when it sees two goroutines in the
\* unsynchronised map at once ("concurrent map writes")
MapRaceCrash ==
    /\ alive
    /\ \E w, v \in Workers : w # v /\ pc[w] = "retry_load" /\ pc[v] = "retry_load"
    /\ alive' = FALSE
    /\ UNCHANGED <<queue, strMap, urls, pages, ids, cfg, failed, ctx, now, coord,
                   pc, loc, qh, sh, h>>

\* after a href: the next one, or the end of the loop
NextHref(w) ==
    /\ loc' = [loc EXCEPT ![w].i = @ + 1]
    /\ IF loc[w].i + 1 > Len(Hrefs(loc[w].urlpath))
       THEN Goto(w, "classify")
       ELSE Goto(w, "disc")

\* the loop over hrefs: isValidURL and c.Queue.Insert(href)
Disc(w) ==
    LET hs == Hrefs(loc[w].urlpath)
        href == hs[loc[w].i]
        r == Push(queue, strMap, href)
    IN
    /\ alive /\ pc[w] = "disc"
    /\ IF isValidURL(href) /\ r.ok
       THEN /\ queue' = r.queue
            /\ strMap' = r.strMap
            /\ loc' = [loc EXCEPT ![w].href = href]
            /\ h' = [h EXCEPT !.insertOk[href] = Min2(@ + 1)]
            /\ Goto(w, "disc_db")
       ELSE /\ NextHref(w)
            /\ UNCHANGED <<queue, strMap, h>>
    /\ UNCHANGED <<urls, pages, ids, cfg, failed, ctx, now, qh, sh>>

\* c.Models.URLs.Insert(u) for a href that was new to the queue
DiscDB(w) ==
    LET m == NewURL(loc[w].href, ZeroTime, ZeroTime, isMarkedURL(loc[w].href))
        r == URLInsert(urls, m, ids.url, now)
    IN
    /\ alive /\ pc[w] = "disc_db"
    /\ urls' = r.rows
    /\ h' = [h EXCEPT !.rowInserts[loc[w].href] = Min2(@ + 1)]
    /\ IF r.err # "nil"
       THEN Goexit(w) /\ UNCHANGED <<ids, loc>>
       ELSE /\ ids' = [ids EXCEPT !.url = @ + 1]
            /\ IF r.m.is_monitored
               THEN Goto(w, "disc_set") /\ UNCHANGED loc
               ELSE NextHref(w)
    /\ UNCHANGED <<queue, strMap, pages, cfg, failed, ctx, now, qh, sh>>

\* c.Queue.SetMapValue(href, true)
DiscSet(w) ==
    /\ alive /\ pc[w] = "disc_set"
    /\ strMap' = SetMapValue(strMap, loc[w].href, TRUE)
    /\ NextHref(w)
    /\ UNCHANGED <<queue, urls, pages, ids, cfg, failed, ctx, now, qh, sh, h>>

\* c.Queue.GetMapValue(urlpath) and the choice between saving the content
\* and updating LastChecked (whose time.Now() is the call's argument)
Classify(w) ==
    LET r == GetMapValue(strMap, loc[w].urlpath) IN
    /\ alive /\ pc[w] = "classify"
    /\ IF r.err = "ErrItemNotFound"
       THEN Goexit(w) /\ UNCHANGED <<loc, now>>
       ELSE IF isMarkedURL(loc[w].urlpath) \/ r.value
       THEN /\ Goto(w, "save_get")
            /\ loc' = [loc EXCEPT ![w].saving = TRUE]
            /\ UNCHANGED now
       ELSE /\ Goto(w, "chk_get")
            /\ \E t \in Times : TimeNow(t) /\ loc' = [loc EXCEPT ![w].t = t]
    /\ UNCHANGED <<queue, strMap, urls, pages, ids, cfg, failed, ctx, qh, sh, h>>

\* savePageContent: GetByURL, doc.Html() and the length test
SaveGet(w) ==
    LET r == URLGetByURL(urls, loc[w].urlpath) IN
    /\ alive /\ pc[w] = "save_get"
    /\ IF r.err # "nil" \/ IsShortContent(loc[w].docLen)
       THEN Goexit(w) /\ UNCHANGED loc
       ELSE /\ Goto(w, "save_page")
            /\ loc' = [loc EXCEPT ![w].uModel = r.m, ![w].readVer = r.m.version]
    /\ UNCHANGED <<queue, strMap, urls, pages, ids, cfg, failed, ctx, now, qh,
                   sh, h>>

\* savePageContent: c.Models.Pages.Insert(newPage)
SavePage(w) ==
    LET m == loc[w].uModel IN
    /\ alive /\ pc[w] = "save_page"
    /\ pages' = PageInsert(pages, NewPage(m.id, loc[w].docLen), ids.page, now)
    /\ ids' = [ids EXCEPT !.page = @ + 1]
    /\ loc' = [loc EXCEPT ![w].pageId = ids.page]
    /\ h' = [h EXCEPT !.unmonPage =
                @ \/ \E row \in urls : row.id = m.id /\ ~row.is_monitored]
    /\ Goto(w, "save_upd")
    /\ UNCHANGED <<queue, strMap, urls, cfg, failed, ctx, now, qh, sh>>

\* savePageContent: LastChecked = time.Now(); LastSaved = time.Now(); Update
SaveUpd(w) ==
    /\ alive /\ pc[w] = "save_upd"
    /\ \E t1 \in Times, t2 \in Times :
          LET r == URLUpdate(urls, [loc[w].uModel EXCEPT !.last_checked = t1,
                                                         !.last_saved = t2])
          IN
          /\ now <= t1 /\ t1 <= t2 /\ now' = t2
          /\ urls' = r.rows
          /\ loc' = [loc EXCEPT ![w].updErr = r.err]
          /\ IF r.err # "nil" THEN Goexit(w) ELSE Goto(w, "save_set")
    /\ UNCHANGED <<queue, strMap, pages, ids, cfg, failed, ctx, qh, sh, h>>

\* c.Queue.SetMapValue(urlpath, false), then the RequestDelay sleep
SaveSet(w) ==
    /\ alive /\ pc[w] = "save_set"
    /\ strMap' = SetMapValue(strMap, loc[w].urlpath, FALSE)
    /\ loc' = [loc EXCEPT ![w] = EndIter(@)]
    /\ Goto(w, "top")
    /\ UNCHANGED <<queue, urls, pages, ids, cfg, failed, ctx, now, qh, sh, h>>

\* updateLastCheckedDate: GetByURL
ChkGet(w) ==
    LET r == URLGetByURL(urls, loc[w].urlpath) IN
    /\ alive /\ pc[w] = "chk_get"
    /\ IF r.err # "nil"
       THEN Goexit(w) /\ UNCHANGED loc
       ELSE /\ Goto(w, "chk_upd")
            /\ loc' = [loc EXCEPT ![w].uModel = [r.m EXCEPT !.last_checked = loc[w].t],
                                  ![w].readVer = r.m.version]
    /\ UNCHANGED <<queue, strMap, urls, pages, ids, cfg, failed, ctx, now, qh,
                   sh, h>>

\* updateLastCheckedDate: Update, then the RequestDelay sleep
ChkUpd(w) ==
    LET r == URLUpdate(urls, loc[w].uModel) IN
    /\ alive /\ pc[w] = "chk_upd"
    /\ urls' = r.rows
    /\ loc' = [loc EXCEPT ![w] = EndIter([@ EXCEPT !.updErr = r.err])]
    /\ IF r.err # "nil" THEN Goexit(w) ELSE Goto(w, "top")
    /\ UNCHANGED <<queue, strMap, pages, ids, cfg, failed, ctx, now, qh, sh, h>>

Worker(w) ==
    \/ Top(w) \/ Remove(w) \/ Fetch(w)
    \/ RetryPush(w) \/ RetryLoad(w) \/ RetryStore(w)
    \/ Disc(w) \/ DiscDB(w) \/ DiscSet(w) \/ Classify(w)
    \/ SaveGet(w) \/ SavePage(w) \/ SaveUpd(w) \/ SaveSet(w)
    \/ ChkGet(w) \/ ChkUpd(w)

\* ------------------------------------------------------------------------
\* Spec: one run of the crawler
\* ------------------------------------------------------------------------
Init ==
    /\ queue = NewQueue.queue
    /\ strMap = NewQueue.strMap
    /\ \E sc \in Scenarios :
          /\ cfg = sc.cfg
          /\ urls = sc.store.urls
          /\ pages = sc.store.pages
          /\ ids = sc.store.ids
    /\ failed = NilMap
    /\ ctx = [done |-> FALSE, sig |-> "none"]
    /\ now = 1
    /\ coord = [pc |-> "init", wg |-> 0, todo |-> {}, t |-> ZeroTime]
    /\ pc = [w \in Workers |-> "unborn"]
    /\ loc = [w \in Workers |-> InitLoc]
    /\ alive = TRUE
    /\ qh = InitQH
    /\ sh = InitSH
    /\ h = InitH
    /\ InitExt

Next ==
    \/ InitQueue /\ UNCHANGED extVars
    \/ \E row \in coord.todo : LoadRow(row) /\ UNCHANGED extVars
    \/ Spawn /\ UNCHANGED extVars
    \/ CoordReturn /\ UNCHANGED extVars
    \/ SignalClear /\ UNCHANGED extVars
    \/ SignalCancel /\ UNCHANGED extVars
    \/ MapRaceCrash /\ UNCHANGED extVars
    \/ \E w \in Workers : Worker(w) /\ UNCHANGED extVars

Spec == Init /\ [][Next]_vars

\* the scheduler runs every goroutine that can take a step; every GET and
\* every store call returns (client timeout, DefaultDBTimeout)
FairSpec ==
    Spec /\ \A w \in Workers : WF_vars(Worker(w) /\ UNCHANGED extVars)

Terminated(w) == pc[w] \in {"quit", "fatal"} \/ ~alive

\* ------------------------------------------------------------------------
\* Properties of the crawl
\* ------------------------------------------------------------------------

\* C3: two workers that visit the same URL to save it, after both read its
\* row at the same version, end with exactly one successful Update, one
\* EditConflict, and one Page row written by the two visits.
C3_ConflictingVisitsWriteOnePage ==
    \A w, v \in Workers :
        ( /\ w # v
          /\ loc[w].saving /\ loc[v].saving
          /\ loc[w].urlpath = loc[v].urlpath
          /\ loc[w].readVer # 0 /\ loc[w].readVer = loc[v].readVer
          /\ loc[w].updErr # "none" /\ loc[v].updErr # "none" )
        => /\ {loc[w].updErr, loc[v].updErr} = {"nil", "ErrEditConflict"}
           /\ ~(loc[w].pageId # 0 /\ loc[v].pageId # 0)

\* C4: every URL row with both last_saved and last_checked set has
\* last_saved <= last_checked.
C4_SavedNotAfterChecked ==
    \A r \in urls :
        (r.last_saved # ZeroTime /\ r.last_checked # ZeroTime)
        => r.last_saved <= r.last_checked

\* C5: no worker inserts a Page row for a URL whose stored row has
\* is_monitored = false at that moment.
C5_PageOnlyForMonitored == ~h.unmonPage

\* C6: after the cancellation no worker passes the select at the top of its
\* loop, so none dequeues again, and every started worker terminates.
C6_CancelStopsWorkers ==
    /\ [](~h.lateIter)
    /\ \A w \in Workers : (ctx.done /\ pc[w] # "unborn") ~> Terminated(w)

\* the workers have all left at the top of their loops after a cancellation
\* while a URL was still pending
C6_Witness ==
    /\ ctx.done
    /\ \A w \in Workers : pc[w] = "quit"
    /\ Len(queue) > 0

\* C7: the coordinator has returned only if every worker it started has
\* terminated, by return or by Goexit.
C7_ReturnAfterWorkers ==
    coord.pc = "returned" => \A w \in Workers : pc[w] \in {"quit", "fatal", "unborn"}

\* the coordinator has returned from an uncancelled crawl in which one
\* worker ended by a fatal event and another by the idle timeout
C7_Witness ==
    /\ coord.pc = "returned"
    /\ ~ctx.done
    /\ \E w, v \in Workers : pc[w] = "fatal" /\ pc[v] = "quit"

\* C8: the step in which a worker ends by a fatal event leaves the process
\* running and every other worker where it was.
C8_FatalEndsOnlyThatWorker ==
    [][\A w \in Workers :
          (pc[w] # "fatal" /\ pc'[w] = "fatal")
          => (alive' /\ \A v \in Workers \ {w} : pc'[v] = pc[v])]_vars

\* after a worker's fatal event a sibling has dequeued a URL and saved it
C8_Witness ==
    /\ alive
    /\ h.sibling
    /\ \E w, v \in Workers :
          /\ pc[w] = "fatal"
          /\ pc[v] = "top" /\ loc[v].updErr = "nil" /\ loc[v].pageId # 0

\* C9: no Page row has content shorter than 100 characters, and a worker
\* that set out to save a shorter document has inserted no Page and ends in
\* the fatal event of savePageContent.
C9_ShortContentNotSaved ==
    /\ \A p \in pages : p.content >= MinContentLen
    /\ \A w \in Workers :
          (loc[w].saving /\ loc[w].docLen \in 1..(MinContentLen - 1))
          => (pc[w] \in {"save_get", "fatal"} /\ loc[w].pageId = 0)

\* a worker ended in the fatal event on a short document of a URL to save,
\* whose row exists
C9_Witness ==
    \E w \in Workers :
        /\ pc[w] = "fatal"
        /\ loc[w].saving
        /\ loc[w].docLen \in 1..(MinContentLen - 1)
        /\ \E r \in urls : r.url = loc[w].urlpath

\* C10: a URL is put back on the queue after a transport error at most
\* RetryTimes times in a run (never with RetryTimes = 0).
C10_RequeuedAtMostRetryTimes ==
    \A u \in URLs : h.requeues[u] <= cfg.retry

\* the steps of the retry branch, from the check of the counter to the
\* store of its increment
RetrySteps == {"retry_push", "retry_load", "retry_store"}

\* C12: the check-and-increment of a URL's failed-request counter by one
\* worker is not interleaved with another worker's on the same URL, and no
\* increment is lost: the count a worker is about to store an increment of
\* is still the map's count.
C12_CounterUpdatesAtomic ==
    /\ \A w, v \in Workers :
          (w # v /\ pc[w] \in RetrySteps /\ pc[v] \in RetrySteps)
          => loc[w].urlpath # loc[v].urlpath
    /\ \A w \in Workers :
          pc[w] = "retry_store" => loc[w].cnt = failed.count[loc[w].urlpath]

\* the rows that are dead; no step of a run changes is_alive
DeadURLs == {r.url : r \in {x \in urls : ~x.is_alive}}

\* C13: no worker requests a URL whose stored row has is_alive = false.
C13_DeadNeverRequested ==
    \A w \in Workers : pc[w] = "fetch" => loc[w].urlpath \notin DeadURLs

\* the run ended on its own: no signal, every worker left by the idle
\* timeout, the coordinator returned
EndedNormally ==
    /\ alive
    /\ coord.pc = "returned"
    /\ ctx.sig = "none"
    /\ \A w \in Workers : pc[w] = "quit"

\* C14: when a run on a store left by an earlier run has ended on its own,
\* every stored URL that is alive, not ignored and was never checked has
\* been taken from the queue and requested by a worker of this run.
C14_RestartVisitsUnvisited ==
    EndedNormally =>
        \A r \in urls :
            (r.is_alive /\ r.url \notin cfg.ignored /\ r.last_checked = ZeroTime)
            => r.url \in h.fetched

\* ------------------------------------------------------------------------
\* SpecAdmit: how a URL gets to be requested.  URLs are records of scheme,
\* host and path.  A URL enters the queue as the base URL (initQueue), from
\* a stored row (loadUrlsToQueue) or as an href of a fetched page
\* (fetchEmbeddedURLs, isValidURL); a worker takes it and requests it with
\* an http.Client that has no CheckRedirect, so the client follows the
\* redirects the server answers with.
\* ------------------------------------------------------------------------
MaxSeen == 3
MaxHops == 1

BaseU == [scheme |-> "https", host |-> "h", path |-> ""]
Hosts == {"h", "x"}
Paths == {"", "/q", "/p", "/i"}

\* the ignore patterns of the command line and the paths that robots.txt
\* disallows for the user-agent
IgnorePatterns == {"/i"}
RobotsDisallow == {"/p"}

AbsURLs == [scheme : {"https", "ftp"}, host : Hosts, path : Paths]
\* hrefs as they stand in a page: absolute, relative, scheme-relative,
\* mailto:
RawHrefs == AbsURLs \cup [scheme : {"", "mailto"}, host : {"", "x"}, path : Paths]

IsAbsoluteURL(u) == u.scheme # "" /\ u.host # ""
IsValidScheme(scheme) == scheme \in {"http", "https"}
BeginsWithInvalidPrefix(u) == u.scheme = "mailto"

\* ContainsAny on the whole URL string and on its path
ContainsAnyURL(u, pats) == u.scheme \in pats \/ u.host \in pats \/ u.path \in pats
ContainsAnyPath(u, pats) == u.path \in pats

\* fetchEmbeddedURLs: an href that is not absolute is appended to the base
\* URL
Normalise(u) ==
    IF ~IsAbsoluteURL(u) /\ ~BeginsWithInvalidPrefix(u)
    THEN [scheme |-> BaseU.scheme, host |-> BaseU.host, path |-> u.path]
    ELSE u

AgentAllowed(u) == u.path \notin RobotsDisallow

\* isValidURL with its five rules
isValidURLRec(u) ==
    /\ u # NoURL
    /\ (u.scheme # "" /\ u.host # "") => u.host = BaseU.host
    /\ IsValidScheme(u.scheme)
    /\ ~ContainsAnyPath(u, IgnorePatterns)
    /\ AgentAllowed(u)

Room == Len(queue) < MaxQueue /\ Cardinality(DOMAIN strMap) < MaxSeen

\* initQueue: q.Insert(baseURL)
AInitQueue ==
    LET r == Push(queue, strMap, BaseU) IN
    /\ net.stage = "init"
    /\ queue' = r.queue
    /\ strMap' = r.strMap
    /\ net' = [net EXCEPT !.stage = "load"]

\* loadUrlsToQueue on one stored row; push stands for the outcome of its
\* switch and of -update-hrefs, fetch for fetchContent
ASeedRow(u, isAlive, push, fetch) ==
    /\ net.stage = "load"
    /\ Room
    /\ net' = net
    /\ IF ~isAlive
       THEN queue' = queue /\ strMap' = SetMapValue(strMap, u, FALSE)
       ELSE IF ContainsAnyURL(u, IgnorePatterns) \/ u.host # BaseU.host
       THEN UNCHANGED <<queue, strMap>>
       ELSE IF push
       THEN /\ queue' = PushForce(queue, strMap, u).queue
            /\ strMap' = SetMapValue(PushForce(queue, strMap, u).strMap, u, fetch)
       ELSE queue' = queue /\ strMap' = SetMapValue(strMap, u, FALSE)

\* beginCrawl starts the workers
AStart ==
    /\ net.stage = "load"
    /\ net' = [net EXCEPT !.stage = "crawl"]
    /\ UNCHANGED <<queue, strMap>>

\* Queue.Remove and getURL: the request goes out
ARequest ==
    LET r == Pop(queue, strMap) IN
    /\ net.stage = "crawl" /\ net.cur = NoURL
    /\ r.err = "nil"
    /\ queue' = r.queue
    /\ strMap' = r.strMap
    /\ net' = [net EXCEPT !.cur = r.item, !.hops = 0]

\* the server answers 3xx with a Location; client.Do follows it
ARedirect(target) ==
    /\ net.stage = "crawl" /\ net.cur # NoURL
    /\ net.hops < MaxHops
    /\ IsValidScheme(target.scheme)
    /\ net' = [net EXCEPT !.cur = target, !.hops = @ + 1]
    /\ UNCHANGED <<queue, strMap>>

\* one href of the fetched page
ADiscover(raw) ==
    LET href == Normalise(raw)
        r == Push(queue, strMap, href)
    IN
    /\ net.stage = "crawl" /\ net.cur # NoURL
    /\ Room
    /\ net' = net
    /\ IF isValidURLRec(href)
       THEN queue' = r.queue /\ strMap' = r.strMap
       ELSE UNCHANGED <<queue, strMap>>

\* the iteration ends
ADone ==
    /\ net.stage = "crawl" /\ net.cur # NoURL
    /\ net' = [net EXCEPT !.cur = NoURL, !.hops = 0]
    /\ UNCHANGED <<queue, strMap>>

admitRest ==
    <<urls, pages, ids, sh, cfg, failed, ctx, now, coord, pc, loc, h, alive,
      qh, mu, boot, pace, api, exp, proc, idle, page>>

AInit == QInit

ANext ==
    \/ AInitQueue /\ UNCHANGED admitRest
    \/ \E u \in AbsURLs, isAlive, push, fetch \in BOOLEAN :
          ASeedRow(u, isAlive, push, fetch) /\ UNCHANGED admitRest
    \/ AStart /\ UNCHANGED admitRest
    \/ ARequest /\ UNCHANGED admitRest
    \/ \E target \in AbsURLs : ARedirect(target) /\ UNCHANGED admitRest
    \/ \E raw \in RawHrefs : ADiscover(raw) /\ UNCHANGED admitRest
    \/ ADone /\ UNCHANGED admitRest

SpecAdmit == AInit /\ [][ANext]_vars

\* C15: the URL of every request a worker has in flight is allowed by
\* robots.txt for the user-agent.
C15_RobotsDisallowedNeverRequested ==
    net.cur # NoURL => AgentAllowed(net.cur)

\* C16: the URL of every request a worker has in flight has the host of the
\* base URL.
C16_RequestsStayOnBaseHost ==
    net.cur # NoURL => net.cur.host = BaseU.host

\* ------------------------------------------------------------------------
\* SpecStartup: the command line is parsed and validated, and only then
\* the database is opened, the queue seeded and the workers started; one
\* worker's loop is followed in time.
\* ------------------------------------------------------------------------
MaxPending == 2

\* time.ParseDuration on the strings the model feeds it
ParseDuration(str) ==
    CASE str = "0s" -> [d |-> 0, err |-> FALSE]
      [] str = "500us" -> [d |-> 500, err |-> FALSE]
      [] str = "1ms" -> [d |-> 1000, err |-> FALSE]
      [] str = "2ms" -> [d |-> 2000, err |-> FALSE]
      [] str = "500ms" -> [d |-> 500000, err |-> FALSE]
      [] str = "1s" -> [d |-> 1000000, err |-> FALSE]
      [] OTHER -> [d |-> 0, err |-> TRUE]

DiskInputs ==
    {[dbToDisk |-> FALSE, savePath |-> "", cutOff |-> "past"]}
    \cup [dbToDisk : {TRUE}, savePath : {"", "out"}, cutOff : {"past", "future"}]

\* the command lines of the model
FlagInputs ==
    {[server |-> sv, baseURL |-> b, nCrawlers |-> n, days |-> dy,
      dbDSN |-> dsn, ua |-> ua, reqDelayStr |-> rd, idleStr |-> it,
      retry |-> rt, dbToDisk |-> dk.dbToDisk, savePath |-> dk.savePath,
      cutOff |-> dk.cutOff, reqDelay |-> 0, idleTimeout |-> 0] :
        sv \in BOOLEAN,
        b \in {NoURL, [scheme |-> "", host |-> "", path |-> "/q"],
               [scheme |-> "ftp", host |-> "h", path |-> ""], BaseU},
        n \in {0, 1}, dy \in {-1, 0}, dsn \in {"", "postgres://db", "mysql://db"},
        ua \in {"", "bot"}, rd \in {"soon", "0s", "500us", "1ms", "2ms"},
        it \in {"500ms", "1s"}, rt \in {-1, 0}, dk \in DiskInputs}

\* Validator.AddError: the first message of a key is kept
AddError(errs, key, message) ==
    IF key \in DOMAIN errs
    THEN errs
    ELSE [k \in (DOMAIN errs) \cup {key} |-> IF k = key THEN message ELSE errs[k]]

\* Validator.Check
Check(errs, ok, key, message) == IF ok THEN errs ELSE AddError(errs, key, message)

\* Validator.Valid
ValidAlways(errs) == TRUE
Valid(errs) == DOMAIN errs = {}

\* validateFlags, check by check
validateFlags(errs, args) ==
    LET e1 == Check(errs, args.baseURL # NoURL, "baseurl", "must be provided")
        e2 == Check(e1, IsAbsoluteURL(args.baseURL), "baseurl", "must be absolute URL")
        e3 == Check(e2, IsValidScheme(args.baseURL.scheme), "baseurl",
                    "scheme must be http/https")
        e4 == Check(e3, args.nCrawlers >= 1, "n", "how do you crawl")
        e5 == Check(e4, args.days >= 0, "days", "invalid update interval")
        e6 == Check(e5, args.dbDSN \in {"", "postgres://db"}, "db-dsn",
                    "only postgres dsn are supported")
        e7 == Check(e6, args.ua # "", "ua", "must be provided")
        e8 == Check(e7, args.reqDelay >= Microsecond, "req-delay",
                    "cannot be less than 1ms")
        e9 == Check(e8, args.idleTimeout >= Second, "idle-time",
                    "cannot be less than 1s")
        e10 == Check(e9, args.retry >= 0, "retry", "invalid retry time")
        e11 == Check(e10, args.cutOff = "past", "date", "cannot be after today")
        e12 == Check(e11, args.savePath # "", "path", "must be provided")
    IN IF args.dbToDisk THEN e12 ELSE e10

\* parseCmdFlags up to validateFlags: flag.Parse, the -server branch, the
\* two time.ParseDuration calls
BParse(f) ==
    LET rd == ParseDuration(f.reqDelayStr)
        it == ParseDuration(f.idleStr)
        e1 == IF rd.err THEN AddError(boot.errors, "req-delay", "invalid duration")
              ELSE boot.errors
        e2 == IF it.err THEN AddError(e1, "idle-time", "invalid duration") ELSE e1
    IN
    /\ boot.stage = "off"
    /\ IF f.server
       THEN boot' = [boot EXCEPT
                        !.stage = "checked",
                        !.flags = [NoFlags EXCEPT !.server = TRUE, !.dbDSN = f.dbDSN],
                        !.errors = Check(boot.errors,
                                         f.dbDSN \in {"", "postgres://db"},
                                         "db-dsn", "only postgres dsn are supported")]
       ELSE boot' = [boot EXCEPT
                        !.stage = "parsed",
                        !.flags = [f EXCEPT !.reqDelay = rd.d, !.idleTimeout = it.d],
                        !.errors = e2]
    /\ pace' = pace

\* validateFlags(v, &cmdArgs)
BValidate ==
    /\ boot.stage = "parsed"
    /\ boot' = [boot EXCEPT !.stage = "checked",
                            !.errors = validateFlags(boot.errors, boot.flags)]
    /\ pace' = pace

\* if !v.Valid() { printInvalidFlagErrors(v) }: os.Exit(1)
BExit ==
    /\ boot.stage = "checked"
    /\ ~Valid(boot.errors)
    /\ boot' = [boot EXCEPT !.stage = "exited"]
    /\ pace' = pace

\* main after parseCmdFlags returned: the database is opened and
\* initialised
BOpenDB ==
    /\ boot.stage = "checked"
    /\ Valid(boot.errors)
    /\ boot' = [boot EXCEPT !.dbOpen = TRUE,
                            !.stage = IF boot.flags.server THEN "serving" ELSE "db"]
    /\ pace' = pace

\* -db2disk: the pages are written to disk and main returns
BDisk ==
    /\ boot.stage = "db"
    /\ boot.flags.dbToDisk
    /\ boot' = [boot EXCEPT !.stage = "done"]
    /\ pace' = pace

\* initQueue: the base URL is queued
BSeed ==
    /\ boot.stage = "db"
    /\ ~boot.flags.dbToDisk
    /\ boot' = [boot EXCEPT !.seeded = TRUE, !.stage = "seeded"]
    /\ pace' = [pace EXCEPT !.pending = 1]

\* beginCrawl: the workers start
BStart ==
    /\ boot.stage = "seeded"
    /\ boot' = [boot EXCEPT !.workers = boot.flags.nCrawlers, !.stage = "crawl"]
    /\ pace' = pace

\* time that has passed since the worker's last request, after d more
Later(since, d) == IF since + d >= MaxGap THEN MaxGap ELSE since + d

\* Crawl: Queue.Remove; on an empty queue quit (idle timeout) or sleep
\* defaultSleepDuration; else getURL sends the request
PRemove ==
    /\ boot.stage = "crawl" /\ pace.pc = "top"
    /\ IF pace.pending = 0
       THEN \/ pace' = [pace EXCEPT !.pc = "quit"]
            \/ pace' = [pace EXCEPT !.since = Later(@, DefaultSleepDuration)]
       ELSE pace' = [pace EXCEPT
                        !.pc = "resp",
                        !.pending = @ - 1,
                        !.lastGap = IF pace.reqs > 0 THEN pace.since ELSE @,
                        !.since = 0,
                        !.reqs = 1]
    /\ boot' = boot

\* the outcome of getURL: a transport error (the URL may be put back), a
\* status other than 200, both followed by continue, or a page
PResponse(outcome, requeue) ==
    /\ boot.stage = "crawl" /\ pace.pc = "resp"
    /\ CASE outcome = "error" ->
              pace' = [pace EXCEPT !.pc = "top",
                                   !.pending = IF requeue THEN @ + 1 ELSE @]
         [] outcome = "status" -> pace' = [pace EXCEPT !.pc = "top"] /\ ~requeue
         [] OTHER -> pace' = [pace EXCEPT !.pc = "page"] /\ ~requeue
    /\ boot' = boot

\* the hrefs of the page are queued and the page is saved or checked
PProcess(found) ==
    /\ boot.stage = "crawl" /\ pace.pc = "page"
    /\ pace.pending + found <= MaxPending
    /\ pace' = [pace EXCEPT !.pc = "rest", !.pending = @ + found]
    /\ boot' = boot

\* time.Sleep(c.RequestDelay)
PRest ==
    /\ boot.stage = "crawl" /\ pace.pc = "rest"
    /\ pace' = [pace EXCEPT !.pc = "top",
                            !.since = Later(@, boot.flags.reqDelay)]
    /\ boot' = boot

\* any step may take time
PTick ==
    /\ boot.stage = "crawl" /\ pace.pc # "quit"
    /\ pace.since < MaxGap
    /\ pace' = [pace EXCEPT !.since = Later(@, DefaultSleepDuration)]
    /\ boot' = boot

startRest ==
    <<queue, strMap, urls, pages, ids, sh, cfg, failed, ctx, now, coord, pc,
      loc, h, alive, qh, mu, net, api, exp, proc, idle, page>>

BInit == QInit

BNext ==
    \/ /\ boot.stage = "off"
       /\ \E f \in FlagInputs : BParse(f) /\ UNCHANGED startRest
    \/ BValidate /\ UNCHANGED startRest
    \/ BExit /\ UNCHANGED startRest
    \/ BOpenDB /\ UNCHANGED startRest
    \/ BDisk /\ UNCHANGED startRest
    \/ BSeed /\ UNCHANGED startRest
    \/ BStart /\ UNCHANGED startRest
    \/ PRemove /\ UNCHANGED startRest
    \/ \E outcome \in {"error", "status", "ok"}, requeue \in BOOLEAN :
          PResponse(outcome, requeue) /\ UNCHANGED startRest
    \/ \E found \in 0..1 : PProcess(found) /\ UNCHANGED startRest
    \/ PRest /\ UNCHANGED startRest
    \/ PTick /\ UNCHANGED startRest

SpecStartup == BInit /\ [][BNext]_vars

\* C17: whenever the worker sends a request, at least RequestDelay has
\* passed since its previous request.
C17_RequestDelayBetweenRequests == pace.lastGap >= boot.flags.reqDelay

\* C19: once validation has recorded a keyed error, the database is never
\* opened, the queue never seeded and no worker started: the program
\* exits.
C19_InvalidFlagsAbortBeforeWork ==
    DOMAIN boot.errors # {} =>
        /\ boot.stage \in {"parsed", "checked", "exited"}
        /\ ~boot.dbOpen /\ ~boot.seeded /\ boot.workers = 0
        /\ pace = InitPace

\* the program has exited on a command line with two invalid flags
C19_Witness ==
    /\ boot.stage = "exited"
    /\ Cardinality(DOMAIN boot.errors) >= 2

\* C20: a worker runs only with a RequestDelay of 1 ms or more.
C20_ReqDelayAtLeastOneMs ==
    boot.stage = "crawl" => boot.flags.reqDelay >= Millisecond

\* ------------------------------------------------------------------------
\* SpecApi: start requests of the management API.  net/http serves every
\* request on its own goroutine; the handlers read and write the webapp's
\* flags without a lock.
\* ------------------------------------------------------------------------
\* a start request arrives
HArrive(r, op) ==
    /\ api.req[r].pc = "none"
    /\ api' = [api EXCEPT !.req[r] = [NoReq EXCEPT !.pc = "check", !.op = op]]

\* if app.IsCrawling { 503 with Retry-After; return }
HCheck(r) ==
    LET op == api.req[r].op IN
    /\ api.req[r].pc = "check"
    /\ IF api.flag[op]
       THEN api' = [api EXCEPT !.req[r].pc = "done", !.req[r].code = 503,
                               !.req[r].retryAfter = "60"]
       ELSE api' = [api EXCEPT !.req[r].pc = "read"]

\* readJSON and the validation of the input: 400 or 422, or go on
HRead(r, outcome) ==
    /\ api.req[r].pc = "read"
    /\ IF outcome = "ok"
       THEN api' = [api EXCEPT !.req[r].pc = "start"]
       ELSE api' = [api EXCEPT !.req[r].pc = "done",
                               !.req[r].code = IF outcome = "bad" THEN 400 ELSE 422]

\* app.IsCrawling = true; go func() { ... the operation ... }(); 202
HStart(r) ==
    LET op == api.req[r].op IN
    /\ api.req[r].pc = "start"
    /\ api' = [api EXCEPT !.flag[op] = TRUE,
                          !.running[op] = @ + 1,
                          !.req[r].pc = "done", !.req[r].code = 202]

\* the operation ends: isProcessingChan <- false
RunDone(op) ==
    /\ api.running[op] > 0
    /\ api' = [api EXCEPT !.running[op] = @ - 1, !.sent[op] = @ + 1]

\* go func() { app.IsCrawling = <-isProcessingChan }()
FlagReceive(op) ==
    /\ api.sent[op] > 0
    /\ api' = [api EXCEPT !.sent[op] = @ - 1, !.flag[op] = FALSE]

apiRest ==
    <<queue, strMap, urls, pages, ids, sh, cfg, failed, ctx, now, coord, pc,
      loc, h, alive, qh, mu, net, boot, pace, exp, proc, idle, page>>

ApiInit == QInit

ApiNext ==
    \/ \E r \in Reqs, op \in Operations : HArrive(r, op) /\ UNCHANGED apiRest
    \/ \E r \in Reqs : HCheck(r) /\ UNCHANGED apiRest
    \/ \E r \in Reqs, outcome \in {"ok", "bad", "invalid"} :
          HRead(r, outcome) /\ UNCHANGED apiRest
    \/ \E r \in Reqs : HStart(r) /\ UNCHANGED apiRest
    \/ \E op \in Operations : RunDone(op) /\ UNCHANGED apiRest
    \/ \E op \in Operations : FlagReceive(op) /\ UNCHANGED apiRest

SpecApi == ApiInit /\ [][ApiNext]_vars

\* C18: at most one instance of each operation runs at any time, and a
\* refused start request has status 503 and a Retry-After header.
C18_OperationsAreSingletons ==
    /\ \A op \in Operations : api.running[op] <= 1
    /\ \A r \in Reqs : api.req[r].code = 503 => api.req[r].retryAfter # ""

\* ------------------------------------------------------------------------
\* InsertForce and Clear, under SpecQueue
\* ------------------------------------------------------------------------
QueueItems == {queue[i] : i \in 1..Len(queue)}

\* C24: every InsertForce(item) appends item to the tail of the pending
\* queue, also when item is already a member or already pending, and sets
\* map[item] to false; the other entries of the map are kept, and no step
\* of the queue removes a key from the membership map.
C24_InsertForceAlwaysAppends ==
    [][/\ DOMAIN strMap \subseteq DOMAIN strMap'
       /\ qh'.last = "InsertForce" =>
             \E item \in URLs :
                /\ qh'.ins[item] = qh.ins[item] + 1
                /\ queue' = Append(queue, item)
                /\ DOMAIN strMap' = DOMAIN strMap \cup {item}
                /\ strMap'[item] = FALSE
                /\ \A x \in DOMAIN strMap \ {item} : strMap'[x] = strMap[x]]_vars

\* InsertForce of an item that was already a member and already pending:
\* it is now pending twice
C24_Witness ==
    /\ qh.last = "InsertForce"
    /\ qh.flag
    /\ Len(queue) >= 2
    /\ queue[Len(queue)] \in {queue[i] : i \in 1..(Len(queue) - 1)}
    /\ strMap[queue[Len(queue)]] = FALSE

\* C25: Clear() leaves the pending queue empty and the membership map, keys
\* and flags, as it was; an Insert that returns true after a Clear is of an
\* item that was not in the map.
C25_ClearKeepsMembership ==
    [][/\ qh'.last = "Clear" => queue' = <<>> /\ strMap' = strMap
       /\ (qh.cleared /\ qh'.last = "InsertTrue") =>
             \E item \in URLs : /\ item \notin DOMAIN strMap
                                /\ queue' = Append(queue, item)]_vars

\* after a Clear that dropped a pending item, an Insert of a seen item was
\* refused and the queue is still empty
C25_Witness ==
    /\ qh.cleared
    /\ qh.last = "InsertFalse"
    /\ queue = <<>>
    /\ \E u \in URLs : qh.ins[u] > qh.rem[u] /\ u \in DOMAIN strMap

\* ------------------------------------------------------------------------
\* SpecExport: the urls and pages tables on one of the two backends, filled
\* by Insert calls, and the exporter (saveDbContentToDisk) run on them.
\* A URL is <base>/<dir>/<file>?id=<query>; the file name has a letter whose
\* case matters.
\* ------------------------------------------------------------------------
MaxRows == 2
MaxPages == 3
defaultPageSize == 20

Backends == {"postgres", "sqlite3"}

\* the times of the store's clock, and the cutoff dates of the exporter
LastTime == MaxTime + 1
ExportTimes == 0..LastTime

ExportURLs ==
    {[dir |-> "docs", file |-> "a", query |-> "1"],
     [dir |-> "docs", file |-> "a", query |-> "2"],
     [dir |-> "docs", file |-> "A", query |-> "1"],
     [dir |-> "blog", file |-> "a", query |-> "1"]}

\* -baseurl: the site, or the site's /docs
BaseArgs == {"", "docs"}
\* -murls: none, or one marked path
MarkedArgs == {"", "a", "blog"}

LowerStr(str) == IF str = "A" THEN "a" ELSE str
Lower(u) == [u EXCEPT !.file = LowerStr(@)]

\* strings.HasPrefix(url, base) and strings.Contains(url, marked)
HasPrefix(u, base) == base = "" \/ u.dir = base
Contains(u, marked) == marked = "" \/ u.dir = marked \/ u.file = marked

\* url LIKE base || '%' and url LIKE '%' || marked || '%': LIKE compares
\* ASCII letters without case on SQLite and with case on PostgreSQL
LikePrefix(backend, u, base) == HasPrefix(u, base)
LikeContains(backend, u, marked) ==
    IF backend = "sqlite3"
    THEN Contains(Lower(u), LowerStr(marked))
    ELSE Contains(u, marked)

\* the unique constraints of the urls table: UNIQUE (url) on both backends,
\* and the unique index on LOWER(url) on PostgreSQL only
URLInsertOn(backend, rows, m, id, t) ==
    IF backend = "postgres" /\ \E r \in rows : Lower(r.url) = Lower(m.url)
    THEN [rows |-> rows, m |-> m, err |-> "unique"]
    ELSE URLInsert(rows, m, id, t)

\* the rows of pages JOIN urls that pass the WHERE clause
Matching(backend, base, marked, cutoff) ==
    {pg \in pages :
        \E u \in urls : /\ pg.url_id = u.id
                        /\ u.is_monitored
                        /\ LikePrefix(backend, u.url, base)
                        /\ LikeContains(backend, u.url, marked)
                        /\ pg.added_at <= cutoff}

\* ROW_NUMBER() OVER (PARTITION BY u.id ORDER BY p.added_at ASC) = 1
RankOldest(S, pg) ==
    \A q \in S : q.url_id = pg.url_id => pg.added_at <= q.added_at

\* ROW_NUMBER() OVER (PARTITION BY u.id ORDER BY p.added_at DESC) = 1 can be
\* given to pg: no row of its partition is later
Rank1(S, pg) ==
    \A q \in S : q.url_id = pg.url_id => q.added_at <= pg.added_at

PageContent(pg) ==
    [url |-> RowById(urls, pg.url_id).url, added_at |-> pg.added_at,
     content |-> pg.content]

\* the results the query WHERE rn = 1 can give: one row of rank 1 for each
\* partition (rows of one partition with equal added_at are in no order)
LatestPages(S) ==
    LET parts == {pg.url_id : pg \in S}
        picks == {f \in [parts -> S] :
                     \A i \in parts : f[i].url_id = i /\ Rank1(S, f[i])}
    IN  {{PageContent(f[i]) : i \in parts} : f \in picks}

\* SELECT COUNT(*) FROM LatestPages WHERE rn = 1
GetLatestPageCount(S) == Cardinality({pg.url_id : pg \in S})

Max0(n) == IF n < 0 THEN 0 ELSE n
MinOf(a, b) == IF a < b THEN a ELSE b

\* LIMIT limit OFFSET offset on a result without ORDER BY
Paginated(rows, limit, offset) ==
    {R \in SUBSET rows :
        Cardinality(R) = MinOf(limit, Max0(Cardinality(rows) - offset))}

\* int(math.Ceil(float64(recordCount) / float64(defaultPageSize)))
TotalPages(recordCount) == (recordCount + defaultPageSize - 1) \div defaultPageSize

\* <savePath><path up to the last segment>/<last segment>_<added_at>.html:
\* the path of the URL, without its query
FileName(row) ==
    [dir |-> row.url.dir, name |-> row.url.file, ts |-> row.added_at]

WriteFile(files, name, content) ==
    [n \in (DOMAIN files) \cup {name} |-> IF n = name THEN content ELSE files[n]]

RECURSIVE savePageContent(_, _)
savePageContent(pageContents, files) ==
    IF pageContents = <<>>
    THEN files
    ELSE savePageContent(Tail(pageContents),
                         WriteFile(files, FileName(Head(pageContents)),
                                   Head(pageContents).content))

\* the orders in which a result can list its rows
Listings(rows) ==
    {l \in [1..Cardinality(rows) -> rows] : {l[i] : i \in DOMAIN l} = rows}

\* sql.Open with the driver of the -db-dsn, InitDatabase
EOpen(backend) ==
    /\ exp.stage = "closed"
    /\ exp' = [exp EXCEPT !.stage = "open", !.backend = backend]
    /\ UNCHANGED <<urls, pages, ids, now>>

\* URLs.Insert
EInsertURL(u, isMonitored) ==
    LET r == URLInsertOn(exp.backend, urls,
                         NewURL(u, ZeroTime, ZeroTime, isMonitored), ids.url, now)
    IN  /\ exp.stage = "open"
        /\ ids.url <= MaxRows
        /\ urls' = r.rows
        /\ ids' = [ids EXCEPT !.url = IF r.err = "nil" THEN @ + 1 ELSE @]
        /\ UNCHANGED <<pages, now, exp>>

\* Pages.Insert: the content of page n is n
EInsertPage(urlID) ==
    /\ exp.stage = "open"
    /\ ids.page <= MaxPages
    /\ \E r \in urls : r.id = urlID
    /\ pages' = PageInsert(pages, NewPage(urlID, ids.page), ids.page, now)
    /\ ids' = [ids EXCEPT !.page = @ + 1]
    /\ UNCHANGED <<urls, now, exp>>

ETick ==
    /\ exp.stage = "open"
    /\ now < LastTime
    /\ now' = now + 1
    /\ UNCHANGED <<urls, pages, ids, exp>>

\* saveDbContentToDisk for one marked path: GetLatestPageCount, totalPages
EStart(base, marked, cutoff) ==
    LET n == GetLatestPageCount(Matching(exp.backend, base, marked, cutoff)) IN
    /\ exp.stage = "open"
    /\ pages # {}
    /\ exp' = [exp EXCEPT !.stage = "pages", !.base = base, !.marked = marked,
                          !.cutoff = cutoff, !.count = n,
                          !.totalPages = TotalPages(n), !.pageNum = 0]
    /\ UNCHANGED <<urls, pages, ids, now>>

\* one turn of the loop: GetLatestPagesPaginated(pageNum+1), savePageContent
EPage ==
    /\ exp.stage = "pages"
    /\ exp.pageNum < exp.totalPages
    /\ \E result \in LatestPages(Matching(exp.backend, exp.base, exp.marked,
                                          exp.cutoff)) :
       \E pageContents \in Paginated(result, defaultPageSize,
                                     exp.pageNum * defaultPageSize) :
       \E l \in Listings(pageContents) :
          exp' = [exp EXCEPT !.pageNum = @ + 1,
                             !.rows = @ \cup pageContents,
                             !.files = savePageContent(l, @)]
    /\ UNCHANGED <<urls, pages, ids, now>>

\* the loop ends: return nil
EDone ==
    /\ exp.stage = "pages"
    /\ exp.pageNum = exp.totalPages
    /\ exp' = [exp EXCEPT !.stage = "done"]
    /\ UNCHANGED <<urls, pages, ids, now>>

exportRest ==
    <<queue, strMap, sh, cfg, failed, ctx, coord, pc, loc, h, alive, qh, mu,
      net, boot, pace, api, proc, idle, page>>

EInit == QInit

ENext ==
    \/ \E backend \in Backends : EOpen(backend) /\ UNCHANGED exportRest
    \/ \E u \in ExportURLs, isMonitored \in BOOLEAN :
          EInsertURL(u, isMonitored) /\ UNCHANGED exportRest
    \/ \E urlID \in 1..MaxRows : EInsertPage(urlID) /\ UNCHANGED exportRest
    \/ ETick /\ UNCHANGED exportRest
    \/ \E base \in BaseArgs, marked \in MarkedArgs, cutoff \in ExportTimes :
          EStart(base, marked, cutoff) /\ UNCHANGED exportRest
    \/ EPage /\ UNCHANGED exportRest
    \/ EDone /\ UNCHANGED exportRest

SpecExport == EInit /\ [][ENext]_vars

\* C22: when the exporter has ended without error for (base, marked,
\* cutoff) and the latest-pages projection counted N pages, there are
\* exactly N files, and the file of each page has the content of that page.
C22_ExporterWritesEachPage ==
    exp.stage = "done" =>
        /\ Cardinality(DOMAIN exp.files) = exp.count
        /\ \A row \in exp.rows : exp.files[FileName(row)] = row.content

\* the pages of URL row u that are not later than the cutoff
PagesUpTo(u, cutoff) == {pg \in pages : pg.url_id = u.id /\ pg.added_at <= cutoff}

\* C23: for each monitored URL that starts with the base and contains the
\* marked substring, the projection the exporter was given has exactly one
\* row, a page of that URL with the greatest added_at among those not later
\* than the cutoff; a URL with no page at or before the cutoff has no row.
C23_LatestPagePerURL ==
    exp.stage = "done" =>
        \A u \in urls :
            (u.is_monitored /\ HasPrefix(u.url, exp.base)
                            /\ Contains(u.url, exp.marked)) =>
                LET ps == PagesUpTo(u, exp.cutoff)
                    rs == {row \in exp.rows : row.url = u.url}
                IN  IF ps = {}
                    THEN rs = {}
                    ELSE /\ Cardinality(rs) = 1
                         /\ \A row \in rs :
                              /\ \E pg \in ps : /\ pg.added_at = row.added_at
                                                /\ pg.content = row.content
                              /\ \A pg \in ps : pg.added_at <= row.added_at

\* the projection chose between an older and a newer page of one URL, left
\* out a page that is later than the cutoff, and gave no row for another
\* monitored URL whose only page is later than the cutoff
C23_Witness ==
    /\ exp.stage = "done"
    /\ \E u \in urls :
          /\ u.is_monitored
          /\ HasPrefix(u.url, exp.base) /\ Contains(u.url, exp.marked)
          /\ \E p1, p2 \in PagesUpTo(u, exp.cutoff) : p1.added_at < p2.added_at
          /\ \E row \in exp.rows : row.url = u.url
    /\ \E u \in urls :
          /\ u.is_monitored
          /\ HasPrefix(u.url, exp.base) /\ Contains(u.url, exp.marked)
          /\ PagesUpTo(u, exp.cutoff) = {}
          /\ \E pg \in pages : pg.url_id = u.id

\* C26: on either backend, no two rows of the urls table have urls that are
\* equal when compared without case.
C26_URLUniqueIgnoringCase ==
    \A r1, r2 \in urls : Lower(r1.url) = Lower(r2.url) => r1 = r2

\* ------------------------------------------------------------------------
\* SpecMain: func main from its first statement to the end of the process.
\* main defers os.Exit(exitCode) first, so every return, and every panic,
\* ends the process with the exitCode set so far.
\* ------------------------------------------------------------------------
MaxCrawlers == 2

Modes == {"server", "disk", "crawl"}

\* os.Exit(code), with the status always 0
ExitZero(p, code) == [p EXCEPT !.pc = "exited", !.code = 0]

\* os.Exit(code)
Exit(p, code) == [p EXCEPT !.pc = "exited", !.code = code]

\* exitCode = code; return
Fail(p, fault, code) == [p EXCEPT !.pc = "return", !.fault = fault, !.exitCode = code]

\* parseCmdFlags: -v prints the version and exits 0; a base URL or cut-off
\* date that does not parse, or an invalid flag, exits 1; else the mode
MParse(outcome, mode) ==
    /\ proc.pc = "start"
    /\ CASE outcome = "version" -> proc' = Exit(proc, 0) /\ mode = "crawl"
         [] outcome = "invalid" ->
              proc' = Exit([proc EXCEPT !.fault = "flags", !.mode = mode], 1)
         [] OTHER -> proc' = [proc EXCEPT !.pc = "loggers", !.mode = mode]

\* initialiseLoggers: panic(err) when the log file cannot be opened; the
\* deferred os.Exit(exitCode) runs while the goroutine panics
MLoggers(ok) ==
    /\ proc.pc = "loggers"
    /\ IF ok
       THEN proc' = [proc EXCEPT !.pc = "db"]
       ELSE proc' = [proc EXCEPT !.pc = "return", !.fault = "logfile"]

\* getDBConnections
MConnect(driver, ok) ==
    /\ proc.pc = "db"
    /\ IF ok
       THEN proc' = [proc EXCEPT !.pc = "initdb", !.driver = driver]
       ELSE proc' = Fail(proc, "dbconn", 1)

\* InitDatabase of the driver's models; then the mode is chosen
MInitDatabase(ok) ==
    /\ proc.pc = "initdb"
    /\ IF ok
       THEN proc' = [proc EXCEPT !.pc = proc.mode]
       ELSE proc' = Fail(proc, "initdb", 1)

\* SIGINT or SIGTERM arrives once main listens for it
MSignal ==
    /\ proc.pc \in {"server", "disk", "crawl", "army", "wait"}
    /\ ~proc.sig
    /\ proc' = [proc EXCEPT !.sig = TRUE]

\* app.serve returns: nil after a shutdown that the signal started, an
\* error from ListenAndServe or Shutdown otherwise; an error gives
\* exitCode 3
MServe(ok) ==
    /\ proc.pc = "server"
    /\ ok => proc.sig
    /\ IF ok
       THEN proc' = [proc EXCEPT !.pc = "return"]
       ELSE proc' = Fail(proc, "server", 3)

\* saveDbContentToDisk returns
MDisk(ok) ==
    /\ proc.pc = "disk"
    /\ IF ok
       THEN proc' = [proc EXCEPT !.pc = "return"]
       ELSE proc' = Fail(proc, "export", 1)

\* beginCrawl: initQueue
MInitQueue(ok) ==
    /\ proc.pc = "crawl"
    /\ IF ok
       THEN proc' = [proc EXCEPT !.pc = "army"]
       ELSE proc' = Fail(proc, "loadurls", 1)

\* net/http status codes
StatusTooManyRequests == 429
StatusInternalServerError == 500

\* what the GET of robots.txt can bring: no response (status 0: the
\* request failed in transport) or a response with a status
RobotsStatuses == {0, 200, 404, StatusTooManyRequests, StatusInternalServerError}

\* getRobotsTxt: an error when httpClient.Do fails, when the status is 429
\* or at least 500, or when the body cannot be read; else the body
getRobotsTxt(status, read) ==
    [status |-> status, read |-> read,
     err |-> \/ status = 0
             \/ status = StatusTooManyRequests
             \/ status >= StatusInternalServerError
             \/ ~read]

\* beginCrawl: getCrawlerArmy (NNewCrawlers, validateConfig: the checks of
\* the configuration, then getRobotsTxt), then one goroutine for each
\* crawler
MArmy(n, ok, status, read) ==
    LET r == getRobotsTxt(status, read) IN
    /\ proc.pc = "army"
    /\ IF ~ok
       THEN proc' = Fail(proc, "workers", 2)
       ELSE IF r.err
       THEN proc' = Fail([proc EXCEPT !.robots = r], "workers", 2)
       ELSE proc' = [proc EXCEPT !.pc = "wait", !.wg = n, !.robots = r]

\* a crawler's goroutine ends: Crawl returned, or runtime.Goexit after a
\* store error; wg.Done() in both cases
MWorkerEnds(fatal) ==
    /\ proc.pc = "wait"
    /\ proc.wg > 0
    /\ proc' = [proc EXCEPT !.wg = @ - 1,
                            !.lost = IF fatal THEN @ + 1 ELSE @]

\* wg.Wait() returns; beginCrawl returns nil
MWaited ==
    /\ proc.pc = "wait"
    /\ proc.wg = 0
    /\ proc' = [proc EXCEPT !.pc = "return"]

\* main returns (or panics): the deferred os.Exit(exitCode)
MReturn ==
    /\ proc.pc = "return"
    /\ proc' = Exit(proc, proc.exitCode)

mainRest ==
    <<queue, strMap, urls, pages, ids, sh, cfg, failed, ctx, now, coord, pc,
      loc, h, alive, qh, mu, net, boot, pace, api, exp, idle, page>>

MainInit == QInit

MainNext ==
    \/ \E outcome \in {"version", "invalid", "ok"}, mode \in Modes :
          MParse(outcome, mode) /\ UNCHANGED mainRest
    \/ \E ok \in BOOLEAN : MLoggers(ok) /\ UNCHANGED mainRest
    \/ \E driver \in Backends, ok \in BOOLEAN :
          MConnect(driver, ok) /\ UNCHANGED mainRest
    \/ \E ok \in BOOLEAN : MInitDatabase(ok) /\ UNCHANGED mainRest
    \/ MSignal /\ UNCHANGED mainRest
    \/ \E ok \in BOOLEAN : MServe(ok) /\ UNCHANGED mainRest
    \/ \E ok \in BOOLEAN : MDisk(ok) /\ UNCHANGED mainRest
    \/ \E ok \in BOOLEAN : MInitQueue(ok) /\ UNCHANGED mainRest
    \/ \E n \in 1..MaxCrawlers, ok \in BOOLEAN, status \in RobotsStatuses,
          read \in BOOLEAN :
          MArmy(n, ok, status, read) /\ UNCHANGED mainRest
    \/ \E fatal \in BOOLEAN : MWorkerEnds(fatal) /\ UNCHANGED mainRest
    \/ MWaited /\ UNCHANGED mainRest
    \/ MReturn /\ UNCHANGED mainRest

SpecMain == MainInit /\ [][MainNext]_vars

AllExited == \A w \in Workers : pc[w] \in {"quit", "fatal"}

\* C27: once the signal has been handled (queue cleared, cancellation
\* signalled) no step of a worker adds an entry to the pending queue, and
\* the pending queue is empty when all workers have exited.
C27_NoQueueEntriesAfterSignal ==
    /\ [][(ctx.sig = "cancelled" /\ coord.pc = "wait")
             => Len(queue') <= Len(queue)]_vars
    /\ []((ctx.sig = "cancelled" /\ coord.pc = "wait" /\ AllExited)
             => queue = <<>>)

\* the workers that are between a successful Insert of href u and the
\* insert of its URL row
AtRowInsert(u) == {w \in Workers : pc[w] = "disc_db" /\ loc[w].href = u}

\* C28: for each href, of all the Inserts that the workers' discoveries
\* make, at most one returns true (so the href enters the pending queue
\* through Insert once), and exactly one insert of a URL row is attempted
\* for it: by the worker whose Insert returned true.
C28_OneInsertPerDiscoveredHref ==
    \A u \in URLs :
        /\ h.insertOk[u] <= 1
        /\ h.rowInserts[u] + Cardinality(AtRowInsert(u)) = h.insertOk[u]

\* both workers are visiting the base page at once and both are past its
\* href a, which was new: one Insert returned true, one row was inserted
C28_Witness ==
    /\ \A w \in Workers : /\ loc[w].urlpath = BaseURL
                          /\ pc[w] = "disc" /\ loc[w].i = 2
    /\ h.insertOk["a"] = 1
    /\ h.rowInserts["a"] = 1
    /\ \E r \in urls : r.url = "a"

\* C29: a worker whose URL Update returned EditConflict (another worker
\* updated the row after this one read it) is not ended by it: it goes on
\* to read the row again.
C29_EditConflictDoesNotEndWorker ==
    \A w \in Workers : loc[w].updErr = "ErrEditConflict" => pc[w] # "fatal"

\* ------------------------------------------------------------------------
\* SpecIdle: a run without cancellation on a site with finitely many URLs.
\* Each worker's loop is followed with its idle timer: startTime is set
\* when Crawl starts and at the end of each iteration that processed a
\* page; on an empty queue the worker returns if time.Since(startTime)
\* exceeds IdleTimeout, else sleeps defaultSleepDuration and polls again.
\* ------------------------------------------------------------------------
IdleTimeout == MaxIdle

\* time.Since(startTime) after d more, as far as the model measures it
Elapsed(since, d) == IF since + d > IdleTimeout THEN IdleTimeout + 1 ELSE since + d

\* a timer that never expires
IdleExpiredNever(since) == FALSE

\* time.Since(startTime) > c.IdleTimeout
IdleExpired(since) == since > IdleTimeout

\* beginCrawl: the base URL is queued and the workers are started
IStart ==
    /\ coord.pc = "init"
    /\ queue' = Push(queue, strMap, BaseURL).queue
    /\ coord' = [coord EXCEPT !.pc = "wait", !.wg = NumWorkers]
    /\ pc' = [w \in Workers |-> "top"]
    /\ UNCHANGED idle

\* the select at the top of the loop: the context is not cancelled
ITop(w) ==
    /\ pc[w] = "top"
    /\ pc' = [pc EXCEPT ![w] = "remove"]
    /\ UNCHANGED <<queue, coord, idle>>

\* c.Queue.Remove(): on ErrEmptyQueue return or sleep; else the request
IRemove(w) ==
    LET r == Pop(queue, strMap) IN
    /\ pc[w] = "remove"
    /\ queue' = r.queue
    /\ IF r.err = "ErrEmptyQueue"
       THEN IF IdleExpired(idle.since[w])
            THEN /\ pc' = [pc EXCEPT ![w] = "quit"]
                 /\ coord' = [coord EXCEPT !.wg = @ - 1]
                 /\ UNCHANGED idle
            ELSE /\ pc' = [pc EXCEPT ![w] = "top"]
                 /\ idle' = [idle EXCEPT !.since[w] = Elapsed(@, 1)]
                 /\ UNCHANGED coord
       ELSE /\ pc' = [pc EXCEPT ![w] = "fetch"]
            /\ UNCHANGED <<coord, idle>>

\* getURL failed or the status is not 200: continue, the timer runs on;
\* else the page is processed
IFetch(w, ok) ==
    /\ pc[w] = "fetch"
    /\ pc' = [pc EXCEPT ![w] = IF ok THEN "page" ELSE "top"]
    /\ UNCHANGED <<queue, coord, idle>>

\* the hrefs of the page: found new URLs are queued; the page is saved or
\* checked, RequestDelay, startTime = time.Now(); or a store error ends
\* the worker (runtime.Goexit, wg.Done)
IProcess(w, found, fatal) ==
    /\ pc[w] = "page"
    /\ found <= idle.left
    /\ queue' = IF found = 0 THEN queue
                ELSE IF found = 1 THEN Append(queue, "a")
                ELSE Append(Append(queue, "a"), "a")
    /\ IF fatal
       THEN /\ pc' = [pc EXCEPT ![w] = "fatal"]
            /\ coord' = [coord EXCEPT !.wg = @ - 1]
            /\ idle' = [idle EXCEPT !.left = @ - found]
       ELSE /\ pc' = [pc EXCEPT ![w] = "top"]
            /\ idle' = [idle EXCEPT !.left = @ - found, !.since[w] = 0]
            /\ UNCHANGED coord

\* any step of a running worker may take time
ITick(w) ==
    /\ pc[w] \in {"top", "remove", "fetch", "page"}
    /\ ~IdleExpired(idle.since[w])
    /\ idle' = [idle EXCEPT !.since[w] = Elapsed(@, 1)]
    /\ UNCHANGED <<queue, coord, pc>>

\* the steps of worker w apart from the passing of time
IWorker(w) ==
    \/ ITop(w)
    \/ IRemove(w)
    \/ \E ok \in BOOLEAN : IFetch(w, ok)
    \/ \E found \in 0..MaxFinds, fatal \in BOOLEAN : IProcess(w, found, fatal)

\* crawLogger.Quit: the tea program quits when the last crawler has quit
LastCrawlerQuit == \A w \in Workers : pc[w] \in {"quit", "fatal"}

\* teaProg.Run() returns, wg.Wait() returns and beginCrawl with it
ICoordReturn ==
    /\ coord.pc = "wait"
    /\ LastCrawlerQuit
    /\ WgWait
    /\ coord' = [coord EXCEPT !.pc = "returned"]
    /\ UNCHANGED <<queue, pc, idle>>

idleRest ==
    <<strMap, urls, pages, ids, sh, cfg, failed, ctx, now, loc, h, alive, qh,
      mu, net, boot, pace, api, exp, proc, page>>

IdleInit == QInit

IdleNext ==
    \/ IStart /\ UNCHANGED idleRest
    \/ \E w \in Workers : ITop(w) /\ UNCHANGED idleRest
    \/ \E w \in Workers : IRemove(w) /\ UNCHANGED idleRest
    \/ \E w \in Workers, ok \in BOOLEAN : IFetch(w, ok) /\ UNCHANGED idleRest
    \/ \E w \in Workers, found \in 0..MaxFinds, fatal \in BOOLEAN :
          IProcess(w, found, fatal) /\ UNCHANGED idleRest
    \/ \E w \in Workers : ITick(w) /\ UNCHANGED idleRest
    \/ ICoordReturn /\ UNCHANGED idleRest

SpecIdle == IdleInit /\ [][IdleNext]_vars

\* the scheduler runs every goroutine that can take a step, and every
\* request and every store call returns
FairIdle ==
    /\ SpecIdle
    /\ WF_vars(IStart /\ UNCHANGED idleRest)
    /\ \A w \in Workers : WF_vars(IWorker(w) /\ UNCHANGED idleRest)
    /\ WF_vars(ICoordReturn /\ UNCHANGED idleRest)

\* C30: without cancellation, a worker returns from an empty queue only
\* when its timer has passed IdleTimeout, and a worker whose timer has not
\* passed it polls again; with finitely many URLs to add, every worker
\* eventually ends and the coordinator returns.
C30_IdleWorkersTerminate ==
    /\ [][\A w \in Workers :
            /\ (pc[w] # "quit" /\ pc'[w] = "quit")
                  => queue = <<>> /\ idle.since[w] > IdleTimeout
            /\ (pc[w] = "remove" /\ queue = <<>> /\ idle.since[w] <= IdleTimeout)
                  => pc'[w] \in {"remove", "top"}]_vars
    /\ <>(AllExited /\ coord.pc = "returned")

\* the run has ended: URLs were found and visited, a worker polled the
\* empty queue until its timer passed IdleTimeout, and the coordinator
\* returned
C30_Witness ==
    /\ coord.pc = "returned"
    /\ \A w \in Workers : pc[w] = "quit" /\ idle.since[w] > IdleTimeout
    /\ idle.left = 0
    /\ queue = <<>>

\* ------------------------------------------------------------------------
\* The worker's iteration: responses, their statuses and bodies
\* ------------------------------------------------------------------------

\* C31: when an iteration has ended on a response with status 404, the
\* row of its URL is not alive (the worker's Update wrote is_alive = false
\* and last_checked), and the iteration wrote no Page row.
C31_NotFoundMarksRowDead ==
    \A w \in Workers :
        (pc[w] = "top" /\ loc[w].status = 404)
            => \A row \in urls : row.url = loc[w].urlpath => ~row.is_alive

\* C40: a worker that is between iterations or has ended holds no response
\* whose body is open.
C40_BodyClosedAfterIteration ==
    \A w \in Workers :
        pc[w] \in {"top", "quit", "fatal"} => loc[w].body # "open"

\* ------------------------------------------------------------------------
\* loadUrlsToQueue, row by row
\* ------------------------------------------------------------------------

\* the iteration of loadUrlsToQueue on row has run to its end
Loaded(row) ==
    /\ coord.pc = "load" /\ coord'.pc = "load"
    /\ row \in coord.todo /\ coord'.todo = coord.todo \ {row}

\* a monitored row whose content is at least days*24h old, or a row that
\* is not monitored and is marked by the run
Due(row) ==
    \/ row.is_monitored /\ coord.t >= row.last_saved + cfg.interval
    \/ ~row.is_monitored /\ row.url \in cfg.marked

\* what the iteration on a due row, and on another row, is to leave
LoadedAsClaimed(row) ==
    IF Due(row)
    THEN /\ queue' = Append(queue, row.url)
         /\ row.url \in DOMAIN strMap' /\ strMap'[row.url]
         /\ \E r \in urls' : r.url = row.url /\ r.is_monitored
    ELSE /\ queue' = queue
         /\ row.url \in DOMAIN strMap' /\ ~strMap'[row.url]
         /\ urls' = urls

\* C32: outside update-hrefs mode, the iteration of loadUrlsToQueue on an
\* alive row that matches no ignore pattern queues its URL with save-flag
\* true if and only if the row is monitored with now >= last_saved +
\* days*24h or is unmonitored and marked (and is then monitored in the
\* store); for every other such row it only records the URL in the
\* membership map with save-flag false.
C32_LoadQueuesDueRows ==
    [][\A row \in coord.todo :
          (Loaded(row) /\ ~cfg.updateHrefs /\ row.is_alive
             /\ row.url \notin cfg.ignored)
              => LoadedAsClaimed(row)]_vars

\* C32 as it is stated, an ignore pattern playing no part
C32_LoadQueuesDueRows_AsStated ==
    [][\A row \in coord.todo :
          (Loaded(row) /\ ~cfg.updateHrefs /\ row.is_alive)
              => LoadedAsClaimed(row)]_vars

\* the load has ended outside update-hrefs mode: the monitored base URL,
\* whose content is old enough, is pending with save-flag true, and the
\* unmonitored, unmarked a is in the membership map only
C32_Witness ==
    /\ coord.pc = "load" /\ coord.todo = {}
    /\ ~cfg.updateHrefs
    /\ \E row \in urls : row.url = BaseURL /\ row.is_monitored /\ row.is_alive
    /\ queue = <<BaseURL, BaseURL>> /\ strMap[BaseURL]
    /\ "a" \in DOMAIN strMap /\ ~strMap["a"]

\* the Page rows a run can find in the store it starts from
StoredPages == UNION {sc.store.pages : sc \in Scenarios}

\* the URLs in the pending queue
Pending == {queue[i] : i \in 1..Len(queue)}

\* C33: in update-hrefs mode, when loadUrlsToQueue has gone through the
\* rows every alive stored URL is pending, and the run writes no Page row:
\* the pages table holds only the rows it started with.
C33_UpdateHrefsSavesNothing ==
    cfg.updateHrefs =>
        /\ (coord.pc = "load" /\ coord.todo = {} /\ ~ctx.done /\ ctx.sig = "none")
              => \A row \in urls : row.is_alive => row.url \in Pending
        /\ pages \subseteq StoredPages

\* ------------------------------------------------------------------------
\* robots.txt at the start of the crawl
\* ------------------------------------------------------------------------

\* the fetch of robots.txt has been made and has failed otherwise than by
\* a response with status 429 or 5xx
RobotsFailedOtherwise ==
    /\ proc.robots.status # -1
    /\ \/ proc.robots.status = 0
       \/ proc.robots.status \in 400..499 \ {StatusTooManyRequests}
       \/ proc.robots.status = 200 /\ ~proc.robots.read

\* C34: after a fetch of robots.txt that failed otherwise than by a 429 or
\* 5xx response, the run is not aborted: no error is returned for it and
\* the workers are started.
C34_RobotsFailureDoesNotAbort ==
    RobotsFailedOtherwise =>
        /\ ~proc.robots.err
        /\ proc.fault = "none"
        /\ proc.pc \in {"wait", "return", "exited"}

\* ------------------------------------------------------------------------
\* Rows of dequeued URLs, save flags of requeued URLs, the queue at the
\* coordinator's return and after seeding
\* ------------------------------------------------------------------------

\* C35: a worker about to call GetByURL for the URL it dequeued, in
\* savePageContent or in updateLastCheckedDate, finds its row in the urls
\* table.
C35_DequeuedURLHasRow ==
    \A w \in Workers :
        pc[w] \in {"save_get", "chk_get"}
            => URLGetByURL(urls, loc[w].urlpath).err # "ErrRecordNotFound"

\* the Page rows written in this run for the URL u
SavedNow(u) ==
    {p \in pages \ StoredPages : \E row \in urls : row.url = u /\ row.id = p.url_id}

\* C37: a URL that loadUrlsToQueue queued with save-flag true and that was
\* requeued after a transport error still has save-flag true when a retry
\* has fetched it and the worker reads the flag, unless its content has
\* been saved in the meantime: the retry saves its content.
C37_RequeueKeepsSaveFlag ==
    \A w \in Workers :
        ( /\ pc[w] = "classify"
          /\ loc[w].urlpath \in h.flagged
          /\ h.requeues[loc[w].urlpath] > 0
          /\ SavedNow(loc[w].urlpath) = {} )
            => GetMapValue(strMap, loc[w].urlpath).value

\* C38: when the coordinator has returned from a crawl in which no signal
\* arrived, the pending queue is empty.
C38_QueueEmptyAtReturn ==
    (coord.pc = "returned" /\ ctx.sig = "none" /\ ~ctx.done) => queue = <<>>

\* no URL occurs twice in the pending queue
NoDuplicates(q) == \A i, j \in 1..Len(q) : q[i] = q[j] => i = j

\* C39: while loadUrlsToQueue runs after the insert of the base URL, and
\* when it has ended and no worker has been started, no URL occurs more
\* than once in the pending queue.
C39_SeededQueueHasNoDuplicates ==
    coord.pc \in {"load", "spawn"} => NoDuplicates(queue)

\* ------------------------------------------------------------------------
\* SpecHrefs: the hrefs of a fetched page, as strings of characters.
\* fetchEmbeddedURLs makes each href an absolute URL string and the loop of
\* Crawl hands it to the queue.  The hrefs are relative paths with spaces,
\* slashes and letters in both cases; none is absolute or begins with one
\* of invalidHrefPrefixs, no ignore pattern is set and robots.txt is empty,
\* so isValidURL accepts each of them.
\* ------------------------------------------------------------------------
MaxHrefLen == 3
MaxHrefs == 2

Chars == {" ", "/", "a", "A"}
HrefStrings == UNION {[1..n -> Chars] : n \in 1..MaxHrefLen}

\* c.BaseURL.String(): lower case, without a trailing "/"
BaseString == <<"h">>

RECURSIVE TrimLeft(_)
TrimLeft(str) ==
    IF str # <<>> /\ Head(str) = " " THEN TrimLeft(Tail(str)) ELSE str

RECURSIVE TrimRight(_)
TrimRight(str) ==
    IF str # <<>> /\ str[Len(str)] = " "
    THEN TrimRight(SubSeq(str, 1, Len(str) - 1))
    ELSE str

\* strings.TrimSpace
TrimSpace(str) == TrimRight(TrimLeft(str))

\* strings.ToLower
ToLower(str) == [i \in 1..Len(str) |-> IF str[i] = "A" THEN "a" ELSE str[i]]

\* strings.HasPrefix(href, "/")
HasSlashPrefix(str) == str # <<>> /\ Head(str) = "/"

\* the body of the Each of fetchEmbeddedURLs for one href attribute
EmbeddedURL(raw) ==
    LET t == TrimSpace(raw)
        rel == IF HasSlashPrefix(t) THEN t ELSE <<"/">> \o t
    IN  ToLower(BaseString \o rel)

\* initQueue: q.Insert(baseURL)
HSeed ==
    LET r == Push(queue, strMap, BaseString) IN
    /\ page.stage = "init"
    /\ queue' = r.queue
    /\ strMap' = r.strMap
    /\ page' = [page EXCEPT !.stage = "hrefs"]

\* one href of the page: fetchEmbeddedURLs, isValidURL, c.Queue.Insert
HHref(raw) ==
    LET r == Push(queue, strMap, EmbeddedURL(raw)) IN
    /\ page.stage = "hrefs"
    /\ Cardinality(page.seen \cup {raw}) <= MaxHrefs
    /\ queue' = r.queue
    /\ strMap' = r.strMap
    /\ page' = [page EXCEPT !.seen = @ \cup {raw}]

\* a worker takes a URL: c.Queue.Remove
HRemove ==
    LET r == Pop(queue, strMap) IN
    /\ page.stage = "hrefs"
    /\ r.err = "nil"
    /\ queue' = r.queue
    /\ strMap' = r.strMap
    /\ page' = page

hrefsRest ==
    <<urls, pages, ids, sh, cfg, failed, ctx, now, coord, pc, loc, h, alive,
      qh, mu, net, boot, pace, api, exp, proc, idle>>

HrefsInit == QInit

HrefsNext ==
    \/ HSeed /\ UNCHANGED hrefsRest
    \/ \E raw \in HrefStrings : HHref(raw) /\ UNCHANGED hrefsRest
    \/ HRemove /\ UNCHANGED hrefsRest

SpecHrefs == HrefsInit /\ [][HrefsNext]_vars

\* an href without its surrounding whitespace, one trailing "/" and the
\* case of its letters
Canon(raw) ==
    LET t == ToLower(TrimSpace(raw)) IN
    IF t # <<>> /\ t[Len(t)] = "/" THEN SubSeq(t, 1, Len(t) - 1) ELSE t

\* C36: two hrefs read from the page that differ only in surrounding
\* whitespace, a trailing "/" or letter case have the same absolute URL
\* string, and so one key in the membership map.
C36_EquivalentHrefsShareKey ==
    \A r1, r2 \in page.seen :
        Canon(r1) = Canon(r2) =>
            /\ EmbeddedURL(r1) = EmbeddedURL(r2)
            /\ Cardinality({EmbeddedURL(r1), EmbeddedURL(r2)}
                             \cap DOMAIN strMap) <= 1
====
